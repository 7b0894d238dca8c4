------------------------------ MODULE Gardens ------------------------------
(***************************************************************************)
(* The garden routes (api/routes/gardens.py) as requests that interleave   *)
(* at every await: the row is loaded and checked in one step, doi.org and  *)
(* the member lookups are steps of their own, and the transaction commits  *)
(* in a last one. A request refused before its first await that matters    *)
(* (404, 401, 400) changes nothing and is not a step.                      *)
(***************************************************************************)
EXTENDS CatalogDB

CONSTANTS
    GardenReq,       \* garden requests in flight at once
    GardenBodies,    \* GardenCreateRequest payloads
    GardenPatches    \* GardenPatchRequest payloads

\* owner_identity_id = NULL also stands for an identity without a users row:
\* every route then falls back on the requesting user, who is the owner.
GardenBody ==
    [doi : Doi, doi_is_draft : BOOLEAN \cup {NULL}, is_archived : BOOLEAN,
     owner_identity_id : User \cup {NULL},
     entrypoint_ids : SUBSET Doi, modal_function_ids : SUBSET ModalFnId]

GardenPatch ==
    [doi_is_draft : BOOLEAN \cup {NULL}, is_archived : BOOLEAN \cup {NULL},
     entrypoint_ids : SUBSET Doi \cup {NULL}]

ASSUME GardenPayloadAssumption ==
    /\ GardenBodies \subseteq GardenBody
    /\ GardenPatches \subseteq GardenPatch

VARIABLE greq

Idle == [pc |-> "idle"]

\* loaded is the row the session read, obj the object it is about to flush.
GardenRequest ==
    [pc : {"resolve", "collect", "commit", "hide"},
     op : {"create", "replace", "patch", "delete"},
     user : User, body : GardenBody \cup GardenPatch \cup {NULL},
     id : GardenId \cup {NULL},
     loaded : GardenRow \cup {NULL}, obj : GardenRow \cup {NULL}]

GardenReqTypeOK == greq \in [GardenReq -> GardenRequest \cup {Idle}]

GardensInit == greq = [r \in GardenReq |-> Idle]

-----------------------------------------------------------------------------
(* Steps of a request slot *)

Request(op, user, body, id, loaded) ==
    [pc |-> "collect", op |-> op, user |-> user, body |-> body, id |-> id,
     loaded |-> loaded, obj |-> NULL]

At(r, pc) == greq[r].pc = pc
Goto(r, q) == greq' = [greq EXCEPT ![r] = q]
Finish(r) == Goto(r, Idle)

\* Bound: every creation in flight has a key left to take.
RoomForGarden ==
    Cardinality({r \in GardenReq : greq[r] # Idle /\ greq[r].op = "create"})
        < Cardinality(Fresh(gardens))

ReadOnly == UNCHANGED <<tables, datacite>>

-----------------------------------------------------------------------------
(* Arrival: load the row, check it *)

\* A body that leaves doi_is_draft out asks doi.org first.
FirstStep(b) == IF b.doi_is_draft = NULL THEN "resolve" ELSE "collect"

AddGarden(r, u, b) ==
    /\ At(r, "idle") /\ RoomForGarden
    /\ Goto(r, [Request("create", u, b, NULL, NULL) EXCEPT !.pc = FirstStep(b)])
    /\ ReadOnly

\* With doi_is_draft left out the ownership check only comes after doi.org.
ReplaceGarden(r, u, d, b) ==
    \/ ByDoi(gardens, d) = {} /\ AddGarden(r, u, b)
    \/ \E g \in ByDoi(gardens, d) :
        /\ At(r, "idle")
        /\ b.doi_is_draft # NULL => DeletableBy(gardens[g], u)
        /\ Goto(r, [Request("replace", u, b, g, gardens[g]) EXCEPT !.pc = FirstStep(b)])
        /\ ReadOnly

PatchedGarden(row, p, members) ==
    [row EXCEPT !.doi_is_draft = Given(p.doi_is_draft, @),
                !.is_archived = Given(p.is_archived, @),
                !.entrypoints = members]

\* The draft check guards the member list with the flag as loaded, the archive
\* check reads the flags as patched.
UpdateGarden(r, u, d, p) ==
    \E g \in ByDoi(gardens, d) :
        LET row == gardens[g]
            obj == PatchedGarden(row, p, row.entrypoints)
            q == Request("patch", u, p, g, row)
        IN  /\ At(r, "idle")
            /\ EditableBy(row, p.is_archived, u)
            /\ IF p.entrypoint_ids # NULL
               THEN row.doi_is_draft /\ Goto(r, q)
               ELSE ~ArchivedDraft(obj) /\ Goto(r, [q EXCEPT !.pc = "commit", !.obj = obj])
            /\ ReadOnly

DeleteGarden(r, u, d) ==
    \E g \in ByDoi(gardens, d) :
        /\ At(r, "idle")
        /\ DeletableBy(gardens[g], u)
        /\ Goto(r, [Request("delete", u, NULL, g, gardens[g]) EXCEPT !.pc = "commit"])
        /\ ReadOnly

-----------------------------------------------------------------------------
(* Awaits before the commit *)

\* The second disjunct is doi.org not answering, or the check a replace makes now.
ResolveDraft(r) ==
    LET q == greq[r]
        b == [q.body EXCEPT !.doi_is_draft = ~Resolves(q.body.doi)]
    IN  /\ At(r, "resolve")
        /\ \/ /\ q.op = "replace" => DeletableBy(q.loaded, q.user)
              /\ Goto(r, [q EXCEPT !.pc = "collect", !.body = b])
           \/ Finish(r)
        /\ ReadOnly

OwnerGiven(q) ==
    IF q.op = "create" THEN Given(q.body.owner_identity_id, q.user)
                       ELSE Given(q.body.owner_identity_id, q.loaded.owner)

Collected(q, members) ==
    IF q.op = "patch" THEN PatchedGarden(q.loaded, q.body, members)
    ELSE [owner |-> OwnerGiven(q), doi |-> q.body.doi,
          doi_is_draft |-> q.body.doi_is_draft, is_archived |-> q.body.is_archived,
          entrypoints |-> members, modal_functions |-> q.body.modal_function_ids]

\* A DOI or an id the lookups do not find is a 404.
CollectMembers(r) ==
    LET q == greq[r]
        members == {e \in Live(entrypoints) : entrypoints[e].doi \in q.body.entrypoint_ids}
        found == /\ Cardinality(members) = Cardinality(q.body.entrypoint_ids)
                 /\ q.op # "patch" => q.body.modal_function_ids \subseteq modal_functions
        obj == Collected(q, members)
    IN  /\ At(r, "collect")
        /\ IF found /\ (q.op = "patch" => ~ArchivedDraft(obj))
           THEN Goto(r, [q EXCEPT !.pc = "commit", !.obj = obj])
           ELSE Finish(r)
        /\ ReadOnly

-----------------------------------------------------------------------------
(* Commit *)

\* UNIQUE(doi), for a row that takes DOI d under key g.
DoiFree(d, g) == ByDoi(gardens, d) \subseteq {g}

\* The foreign keys of a new garden's association rows. (Mutant of
\* InsertAllowed: no UNIQUE.)
MembersExist(obj) ==
    /\ obj.entrypoints \subseteq Live(entrypoints)
    /\ obj.modal_functions \subseteq modal_functions

InsertAllowed(obj) == ByDoi(gardens, obj.doi) = {} /\ MembersExist(obj)

CommitCreate(r) ==
    LET obj == greq[r].obj IN
    /\ At(r, "commit") /\ greq[r].op = "create"
    /\ Finish(r)
    /\ IF InsertAllowed(obj)
       THEN \E g \in Fresh(gardens) : gardens' = [gardens EXCEPT ![g] = obj]
       ELSE UNCHANGED gardens
    /\ UNCHANGED <<entrypoints, modal_functions, saved, datacite>>

\* Mutant of FlushedGarden: the UPDATE leaves a column out.
FlushedVisible(row, loaded, obj) == [obj EXCEPT !.is_archived = row.is_archived]

FlushedGarden(row, loaded, obj) ==
    [owner |-> FlushColumn(row.owner, loaded.owner, obj.owner),
     doi |-> FlushColumn(row.doi, loaded.doi, obj.doi),
     doi_is_draft |-> FlushColumn(row.doi_is_draft, loaded.doi_is_draft, obj.doi_is_draft),
     is_archived |-> FlushColumn(row.is_archived, loaded.is_archived, obj.is_archived),
     entrypoints |-> FlushSet(row.entrypoints, loaded.entrypoints, obj.entrypoints),
     modal_functions |->
        FlushSet(row.modal_functions, loaded.modal_functions, obj.modal_functions)]

\* Nothing to write to the row itself: no UPDATE that could miss a deleted row.
OnlyDropsMembers(loaded, obj) ==
    [loaded EXCEPT !.entrypoints = {}, !.modal_functions = {}]
        = [obj EXCEPT !.entrypoints = {}, !.modal_functions = {}]
    /\ obj.entrypoints \subseteq loaded.entrypoints
    /\ obj.modal_functions \subseteq loaded.modal_functions

\* Mutant: new association rows are not checked.
RenameAllowed(g, loaded, obj) == obj.doi # loaded.doi => DoiFree(obj.doi, g)

\* UNIQUE(doi); the foreign keys and the primary keys of the association rows
\* that the flush inserts.
FlushAllowed(g, loaded, obj) ==
    /\ obj.doi # loaded.doi => DoiFree(obj.doi, g)
    /\ obj.entrypoints \ loaded.entrypoints
            \subseteq Live(entrypoints) \ gardens[g].entrypoints
    /\ obj.modal_functions \ loaded.modal_functions
            \subseteq modal_functions \ gardens[g].modal_functions

\* PUT and PATCH. A flush that finds its row deleted fails, unless it had only
\* association rows to delete; an archiving PATCH goes on to DataCite.
CommitUpdate(r) ==
    LET q == greq[r]
        exists == q.id \in Live(gardens)
        after == IF q.op = "patch" /\ q.obj.is_archived THEN [q EXCEPT !.pc = "hide"] ELSE Idle
    IN  /\ At(r, "commit") /\ q.op \in {"replace", "patch"}
        /\ \/ /\ exists /\ FlushAllowed(q.id, q.loaded, q.obj)
              /\ gardens' = [gardens EXCEPT ![q.id] = FlushedGarden(@, q.loaded, q.obj)]
              /\ Goto(r, after)
           \/ /\ ~exists /\ OnlyDropsMembers(q.loaded, q.obj)
              /\ Goto(r, after)
              /\ UNCHANGED gardens
           \/ /\ IF exists THEN ~FlushAllowed(q.id, q.loaded, q.obj)
                           ELSE ~OnlyDropsMembers(q.loaded, q.obj)
              /\ Finish(r)
              /\ UNCHANGED gardens
        /\ UNCHANGED <<entrypoints, modal_functions, saved, datacite>>

\* (Mutant of DeleteAllowed: no user has saved the garden.)
NoNewMembers(q) ==
    /\ q.id \in Live(gardens)
    /\ gardens[q.id].entrypoints \subseteq q.loaded.entrypoints
    /\ gardens[q.id].modal_functions \subseteq q.loaded.modal_functions

\* The association rows loaded with the garden go with it; any other row that
\* refers to the garden makes the DELETE fail. A row already gone is no error.
DeleteAllowed(q) == NoNewMembers(q) /\ \A u \in User : <<u, q.id>> \notin saved

CommitDelete(r) ==
    LET q == greq[r] IN
    /\ At(r, "commit") /\ q.op = "delete"
    /\ Finish(r)
    /\ IF DeleteAllowed(q)
       THEN gardens' = [gardens EXCEPT ![q.id] = GONE]
       ELSE UNCHANGED gardens
    /\ UNCHANGED <<entrypoints, modal_functions, saved, datacite>>

\* After the commit: DataCite hides the DOI, or the call fails and the PATCH
\* answers 409 with its change already committed.
ArchiveGarden(r) ==
    /\ At(r, "hide")
    /\ HideOnDatacite(greq[r].loaded.doi) \/ UNCHANGED datacite
    /\ Finish(r)
    /\ UNCHANGED tables

-----------------------------------------------------------------------------
GardenStep(r) ==
    \/ \E u \in User, b \in GardenBodies : AddGarden(r, u, b)
    \/ \E u \in User, d \in Doi, b \in GardenBodies : ReplaceGarden(r, u, d, b)
    \/ \E u \in User, d \in Doi, p \in GardenPatches : UpdateGarden(r, u, d, p)
    \/ \E u \in User, d \in Doi : DeleteGarden(r, u, d)
    \/ ResolveDraft(r)
    \/ CollectMembers(r)
    \/ CommitCreate(r)
    \/ CommitUpdate(r)
    \/ CommitDelete(r)
    \/ ArchiveGarden(r)

GardensNext == \E r \in GardenReq : GardenStep(r)

\* The service restarts: requests vanish, and with them what was not committed.
GardensRestart == greq' = [r \in GardenReq |-> Idle]
=============================================================================
