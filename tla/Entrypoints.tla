---------------------------- MODULE Entrypoints ----------------------------
(***************************************************************************)
(* The entrypoint routes (api/routes/entrypoints.py), split at the same    *)
(* awaits as the garden routes. func stands for the seven attributes a     *)
(* published entrypoint may not change; func_uuid, one of them, is UNIQUE. *)
(***************************************************************************)
EXTENDS CatalogDB

CONSTANTS
    EntrypointReq,      \* entrypoint requests in flight at once
    EntrypointBodies,   \* EntrypointCreateRequest payloads
    EntrypointPatches   \* EntrypointPatchRequest payloads

EntrypointBody ==
    [doi : Doi, doi_is_draft : BOOLEAN, is_archived : BOOLEAN, func : Func,
     owner_identity_id : User \cup {NULL}]

EntrypointPatch ==
    [doi_is_draft : BOOLEAN \cup {NULL}, is_archived : BOOLEAN \cup {NULL},
     func : Func \cup {NULL}]

ASSUME EntrypointPayloadAssumption ==
    /\ EntrypointBodies \subseteq EntrypointBody
    /\ EntrypointPatches \subseteq EntrypointPatch

VARIABLE ereq

EIdle == [pc |-> "idle"]

EntrypointRequest ==
    [pc : {"commit", "hide"}, op : {"create", "replace", "patch", "delete"},
     user : User, body : EntrypointPatch \cup {NULL}, id : EntrypointId \cup {NULL},
     loaded : EntrypointRow \cup {NULL}, obj : EntrypointRow \cup {NULL}]

EntrypointReqTypeOK == ereq \in [EntrypointReq -> EntrypointRequest \cup {EIdle}]

EntrypointsInit == ereq = [r \in EntrypointReq |-> EIdle]

EAt(r, pc) == ereq[r].pc = pc
EGoto(r, q) == ereq' = [ereq EXCEPT ![r] = q]
EFinish(r) == EGoto(r, EIdle)

\* Every handler goes from its load straight to its commit.
Arrive(r, op, user, body, id, loaded, obj) ==
    /\ EAt(r, "idle")
    /\ EGoto(r, [pc |-> "commit", op |-> op, user |-> user, body |-> body,
                 id |-> id, loaded |-> loaded, obj |-> obj])
    /\ UNCHANGED <<tables, datacite>>

\* Bound: every creation in flight has a key left to take.
RoomForEntrypoint ==
    Cardinality({r \in EntrypointReq : ereq[r] # EIdle /\ ereq[r].op = "create"})
        < Cardinality(Fresh(entrypoints))

FromBody(b, owner) ==
    [owner |-> owner, doi |-> b.doi, doi_is_draft |-> b.doi_is_draft,
     is_archived |-> b.is_archived, func |-> b.func]

-----------------------------------------------------------------------------
(* Arrival: load the row, check it, assign the payload *)

AddEntrypoint(r, u, b) ==
    /\ RoomForEntrypoint
    /\ Arrive(r, "create", u, NULL, NULL, NULL,
              FromBody(b, Given(b.owner_identity_id, u)))

ReplaceEntrypoint(r, u, d, b) ==
    \/ ByDoi(entrypoints, d) = {} /\ AddEntrypoint(r, u, b)
    \/ \E e \in ByDoi(entrypoints, d) :
        LET row == entrypoints[e] IN
        /\ DeletableBy(row, u)
        /\ Arrive(r, "replace", u, NULL, e, row,
                  FromBody(b, Given(b.owner_identity_id, row.owner)))

\* The payload is assigned before the flags are read: both checks see the
\* draft flag this request sets, not the one it found.
UpdateEntrypoint(r, u, d, p) ==
    \E e \in ByDoi(entrypoints, d) :
        LET row == entrypoints[e]
            obj == [row EXCEPT !.doi_is_draft = Given(p.doi_is_draft, @),
                               !.is_archived = Given(p.is_archived, @),
                               !.func = Given(p.func, @)]
        IN  /\ EditableBy(row, p.is_archived, u)
            /\ ~ArchivedDraft(obj)
            /\ ~obj.doi_is_draft => p.func = NULL
            /\ Arrive(r, "patch", u, p, e, row, obj)

DeleteEntrypoint(r, u, d) ==
    \E e \in ByDoi(entrypoints, d) :
        /\ DeletableBy(entrypoints[e], u)
        /\ Arrive(r, "delete", u, NULL, e, entrypoints[e], NULL)

-----------------------------------------------------------------------------
(* Commit *)

ByFunc(f) == {e \in Live(entrypoints) : entrypoints[e].func = f}

CommitNewEntrypoint(r) ==
    LET obj == ereq[r].obj IN
    /\ EAt(r, "commit") /\ ereq[r].op = "create"
    /\ EFinish(r)
    /\ IF ByDoi(entrypoints, obj.doi) = {} /\ ByFunc(obj.func) = {}
       THEN \E e \in Fresh(entrypoints) : entrypoints' = [entrypoints EXCEPT ![e] = obj]
       ELSE UNCHANGED entrypoints
    /\ UNCHANGED <<gardens, modal_functions, saved, datacite>>

FlushedEntrypoint(row, loaded, obj) ==
    [owner |-> FlushColumn(row.owner, loaded.owner, obj.owner),
     doi |-> FlushColumn(row.doi, loaded.doi, obj.doi),
     doi_is_draft |-> FlushColumn(row.doi_is_draft, loaded.doi_is_draft, obj.doi_is_draft),
     is_archived |-> FlushColumn(row.is_archived, loaded.is_archived, obj.is_archived),
     func |-> FlushColumn(row.func, loaded.func, obj.func)]

\* Mutant: func_uuid is not UNIQUE.
DoiKeyFree(e, loaded, obj) ==
    obj.doi # loaded.doi => ByDoi(entrypoints, obj.doi) \subseteq {e}

\* UNIQUE(doi) and UNIQUE(func_uuid), for the columns the flush writes.
KeysFree(e, loaded, obj) ==
    /\ obj.doi # loaded.doi => ByDoi(entrypoints, obj.doi) \subseteq {e}
    /\ obj.func # loaded.func => ByFunc(obj.func) \subseteq {e}

CommitUpdatedEntrypoint(r) ==
    LET q == ereq[r]
        exists == q.id \in Live(entrypoints)
        after == IF q.op = "patch" /\ q.obj.is_archived THEN [q EXCEPT !.pc = "hide"] ELSE EIdle
    IN  /\ EAt(r, "commit") /\ q.op \in {"replace", "patch"}
        /\ \/ /\ exists /\ KeysFree(q.id, q.loaded, q.obj)
              /\ entrypoints' =
                    [entrypoints EXCEPT ![q.id] = FlushedEntrypoint(@, q.loaded, q.obj)]
              /\ EGoto(r, after)
           \/ /\ ~exists /\ q.obj = q.loaded
              /\ EGoto(r, after)
              /\ UNCHANGED entrypoints
           \/ /\ IF exists THEN ~KeysFree(q.id, q.loaded, q.obj) ELSE q.obj # q.loaded
              /\ EFinish(r)
              /\ UNCHANGED entrypoints
        /\ UNCHANGED <<gardens, modal_functions, saved, datacite>>

\* A garden that lists the entrypoint makes the DELETE fail.
CommitDeletedEntrypoint(r) ==
    LET q == ereq[r] IN
    /\ EAt(r, "commit") /\ q.op = "delete"
    /\ EFinish(r)
    /\ IF /\ q.id \in Live(entrypoints)
          /\ \A g \in Live(gardens) : q.id \notin gardens[g].entrypoints
       THEN entrypoints' = [entrypoints EXCEPT ![q.id] = GONE]
       ELSE UNCHANGED entrypoints
    /\ UNCHANGED <<gardens, modal_functions, saved, datacite>>

\* No try around this call: DataCite refusing it surfaces as a 500.
ArchiveEntrypoint(r) ==
    /\ EAt(r, "hide")
    /\ HideOnDatacite(ereq[r].loaded.doi) \/ UNCHANGED datacite
    /\ EFinish(r)
    /\ UNCHANGED tables

-----------------------------------------------------------------------------
EntrypointStep(r) ==
    \/ \E u \in User, b \in EntrypointBodies : AddEntrypoint(r, u, b)
    \/ \E u \in User, d \in Doi, b \in EntrypointBodies : ReplaceEntrypoint(r, u, d, b)
    \/ \E u \in User, d \in Doi, p \in EntrypointPatches : UpdateEntrypoint(r, u, d, p)
    \/ \E u \in User, d \in Doi : DeleteEntrypoint(r, u, d)
    \/ CommitNewEntrypoint(r)
    \/ CommitUpdatedEntrypoint(r)
    \/ CommitDeletedEntrypoint(r)
    \/ ArchiveEntrypoint(r)

EntrypointsNext == \E r \in EntrypointReq : EntrypointStep(r)

EntrypointsRestart == ereq' = [r \in EntrypointReq |-> EIdle]
=============================================================================
