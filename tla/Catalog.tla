------------------------------ MODULE Catalog ------------------------------
(***************************************************************************)
(* The catalogue service: garden, entrypoint, saved-garden and DOI routes  *)
(* interleaving over one database and one DataCite, and a restart of the   *)
(* service at any moment.                                                  *)
(***************************************************************************)
EXTENDS Gardens, Entrypoints, SavedGardens, Dois

vars == <<tables, datacite, greq, ereq, sreq>>

Init == TablesInit /\ GardensInit /\ EntrypointsInit /\ SavedInit

\* An app is deleted with a function no garden lists (CommitDelete of ModalApps,
\* seen from here).
DeleteModalFunction(f) ==
    /\ \A g \in Live(gardens) : f \notin gardens[g].modal_functions
    /\ modal_functions' = modal_functions \ {f}
    /\ UNCHANGED <<gardens, entrypoints, saved, datacite, greq, ereq, sreq>>

\* One process runs every request, so a restart takes them all.
Restart ==
    /\ GardensRestart /\ EntrypointsRestart /\ SavedRestart
    /\ UNCHANGED <<tables, datacite>>

Next ==
    \/ GardensNext /\ UNCHANGED <<ereq, sreq>>
    \/ EntrypointsNext /\ UNCHANGED <<greq, sreq>>
    \/ SavedNext /\ UNCHANGED <<greq, ereq>>
    \/ DoisNext /\ UNCHANGED <<greq, ereq, sreq>>
    \/ \E f \in modal_functions : DeleteModalFunction(f)
    \/ Restart

Spec == Init /\ [][Next]_vars

-----------------------------------------------------------------------------
\* Tables, requests and DataCite hold what the code puts in them.
TypeOK ==
    /\ TablesTypeOK
    /\ GardenReqTypeOK /\ EntrypointReqTypeOK /\ SaveReqTypeOK

\* No two live gardens share a DOI and no two live entrypoints share a DOI or a
\* func_uuid, whatever renaming PUTs and creations commit between each other
\* (UNIQUE in models/garden.py and models/entrypoint.py; the handlers look a
\* row up by DOI and rely on getting at most one).
UniqueKeys ==
    /\ \A g, h \in Live(gardens) : gardens[g].doi = gardens[h].doi => g = h
    /\ \A e, f \in Live(entrypoints) :
        \/ e = f
        \/ /\ entrypoints[e].doi # entrypoints[f].doi
           /\ entrypoints[e].func # entrypoints[f].func

\* A garden lists only entrypoints and functions that exist and a user's saved
\* list names only gardens that exist, although members are looked up, lists
\* refreshed and rows deleted by requests that overlap.
ReferentialIntegrity ==
    /\ \A g \in Live(gardens) :
        /\ gardens[g].entrypoints \subseteq Live(entrypoints)
        /\ gardens[g].modal_functions \subseteq modal_functions
    /\ \A s \in saved : s[2] \in Live(gardens)

\* What a garden request may do to a row, judged on the row it loaded: its user
\* owned it; a PUT or DELETE saw a draft; a PATCH saw a garden that is not
\* archived or un-archives it, keeps owner, DOI and functions, and changes the
\* entrypoints only of a draft.
MayWriteGarden(q, before, after) ==
    /\ q.loaded.owner = q.user
    /\ q.op \in {"replace", "delete"} => q.loaded.doi_is_draft
    /\ after = GONE => q.op = "delete"
    /\ q.op = "patch" =>
        /\ q.loaded.is_archived => q.body.is_archived = FALSE
        /\ after.owner = before.owner /\ after.doi = before.doi
        /\ after.modal_functions = before.modal_functions
        /\ after.entrypoints # before.entrypoints => q.loaded.doi_is_draft

\* However requests overlap, a garden's row changes only in the commit of a
\* request that was allowed to change it by the row it loaded
\* (assert_deletable_by_user, assert_editable_by_user and the entrypoint check
\* of update_garden all come before the awaits they are meant to protect).
GardenWritesAuthorised ==
    [][\A g \in Live(gardens) : gardens'[g] # gardens[g] =>
        \E r \in GardenReq :
            /\ greq[r].pc = "commit" /\ greq[r].op # "create" /\ greq[r].id = g
            /\ MayWriteGarden(greq[r], gardens[g], gardens'[g])]_vars

\* The same for entrypoints; the frozen attributes change only under a request
\* that leaves its own copy of the entrypoint a draft.
MayWriteEntrypoint(q, before, after) ==
    /\ q.loaded.owner = q.user
    /\ q.op \in {"replace", "delete"} => q.loaded.doi_is_draft
    /\ after = GONE => q.op = "delete"
    /\ q.op = "patch" =>
        /\ q.loaded.is_archived => q.body.is_archived = FALSE
        /\ after.owner = before.owner /\ after.doi = before.doi
        /\ after.func # before.func => q.obj.doi_is_draft

\* An entrypoint's row changes only in the commit of a request that was allowed
\* to change it by the row it loaded (api/routes/entrypoints.py).
EntrypointWritesAuthorised ==
    [][\A e \in Live(entrypoints) : entrypoints'[e] # entrypoints[e] =>
        \E r \in EntrypointReq :
            /\ ereq[r].pc = "commit" /\ ereq[r].op # "create" /\ ereq[r].id = e
            /\ MayWriteEntrypoint(ereq[r], entrypoints[e], entrypoints'[e])]_vars

-----------------------------------------------------------------------------
\* A published garden is not deleted, transferred, renamed, or given other
\* members: the checks of gardens.py at 165, 201 and 263 seen from the table.
PublishedGardenFrozen ==
    [][\A g \in Live(gardens) : ~gardens[g].doi_is_draft =>
        /\ gardens'[g] # GONE
        /\ gardens'[g].owner = gardens[g].owner
        /\ gardens'[g].doi = gardens[g].doi
        /\ gardens'[g].entrypoints = gardens[g].entrypoints
        /\ gardens'[g].modal_functions = gardens[g].modal_functions]_vars

\* gardens.py:261, "Prevent updating entrypoints on published gardens".
PublishedMembersFixed ==
    [][\A g \in Live(gardens) :
        ~gardens[g].doi_is_draft /\ gardens'[g] # GONE
            => gardens'[g].entrypoints = gardens[g].entrypoints]_vars

\* A published entrypoint is not deleted, transferred or renamed (entrypoints.py
\* at 103 and 136).
PublishedEntrypointKept ==
    [][\A e \in Live(entrypoints) : ~entrypoints[e].doi_is_draft =>
        /\ entrypoints'[e] # GONE
        /\ entrypoints'[e].owner = entrypoints[e].owner
        /\ entrypoints'[e].doi = entrypoints[e].doi]_vars

\* entrypoints.py:197, "Prevent updating certain fields if entrypoint is
\* published".
PublishedEntrypointFrozen ==
    [][\A e \in Live(entrypoints) :
        ~entrypoints[e].doi_is_draft /\ entrypoints'[e] # GONE
            => entrypoints'[e].func = entrypoints[e].func]_vars

\* DataCite is asked to hide a garden's DOI only once the archive is committed
\* (gardens.py:281-283), and nothing the same request or the service does in
\* between shows the garden again: with one garden request at a time, and no one
\* asking DataCite for it through the DOI routes, a DOI leaves the index only
\* for an archived garden.
HiddenIsArchived ==
    [][\A d \in Doi : datacite[d] = "findable" /\ datacite'[d] = "registered" =>
        \E g \in ByDoi(gardens, d) : gardens[g].is_archived]_vars

\* With one request at a time per table the routes act as if each took effect at
\* once: what a request checked and looked up before its awaits still holds of
\* the rows its commit writes, and the flush writes what the payload asks for.
\* (Entrypoints and gardens interleave, DataCite comes after a garden's commit.)
Atomic == INSTANCE AtomicCatalog
ActsAtomically == Atomic!Spec
=============================================================================
