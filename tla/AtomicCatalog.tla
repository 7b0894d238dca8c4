---------------------------- MODULE AtomicCatalog ----------------------------
(***************************************************************************)
(* What the catalogue routes promise of the tables, with no requests in    *)
(* sight: whatever is not refused takes effect at once. The checks hold of *)
(* the row that is written, the new row is what the payload makes of it,   *)
(* and no other row changes.                                               *)
(***************************************************************************)
EXTENDS FiniteSets

CONSTANTS
    NULL, GONE, User, GardenId, EntrypointId, ModalFnId,
    GardenBodies, GardenPatches, EntrypointBodies, EntrypointPatches

VARIABLES gardens, entrypoints, modal_functions, saved

rows == <<gardens, entrypoints, modal_functions, saved>>

Kept(table) == {k \in DOMAIN table : table[k] \notin {NULL, GONE}}
Or(new, old) == IF new = NULL THEN old ELSE new

Mine(row, u) == row.owner = u /\ row.doi_is_draft
Editable(row, p, u) == row.owner = u /\ (row.is_archived => p.is_archived = FALSE)

-----------------------------------------------------------------------------
(* Gardens *)

WriteGarden(g, row) ==
    /\ gardens' = [gardens EXCEPT ![g] = row]
    /\ UNCHANGED <<entrypoints, modal_functions, saved>>

\* As many members as the payload names, each of which exists.
Members(dois) == {m \in SUBSET Kept(entrypoints) : Cardinality(m) = Cardinality(dois)}

\* A body without a draft flag leaves it to doi.org.
PutGarden(g, b, owner) ==
    /\ \A h \in Kept(gardens) : gardens[h].doi = b.doi => h = g
    /\ b.modal_function_ids \subseteq modal_functions
    /\ \E draft \in BOOLEAN, members \in Members(b.entrypoint_ids) :
        /\ b.doi_is_draft \in {draft, NULL}
        /\ WriteGarden(g,
            [owner |-> Or(b.owner_identity_id, owner), doi |-> b.doi,
             doi_is_draft |-> draft, is_archived |-> b.is_archived,
             entrypoints |-> members, modal_functions |-> b.modal_function_ids])

CreateGarden(g, u, b) == gardens[g] = NULL /\ PutGarden(g, b, u)
ReplaceGarden(g, u, b) == g \in Kept(gardens) /\ Mine(gardens[g], u) /\ PutGarden(g, b, u)

PatchGarden(g, u, p) ==
    LET row == gardens[g]
        draft == Or(p.doi_is_draft, row.doi_is_draft)
        archived == Or(p.is_archived, row.is_archived)
    IN  /\ g \in Kept(gardens) /\ Editable(row, p, u) /\ ~(archived /\ draft)
        /\ \E members \in IF p.entrypoint_ids = NULL THEN {row.entrypoints}
                                                     ELSE Members(p.entrypoint_ids) :
            /\ p.entrypoint_ids # NULL => row.doi_is_draft
            /\ WriteGarden(g,
                [owner |-> row.owner, doi |-> row.doi, doi_is_draft |-> draft,
                 is_archived |-> archived, entrypoints |-> members,
                 modal_functions |-> row.modal_functions])

DeleteGarden(g, u) ==
    /\ g \in Kept(gardens) /\ Mine(gardens[g], u)
    /\ \A v \in User : <<v, g>> \notin saved
    /\ WriteGarden(g, GONE)

-----------------------------------------------------------------------------
(* Entrypoints *)

WriteEntrypoint(e, row) ==
    /\ entrypoints' = [entrypoints EXCEPT ![e] = row]
    /\ UNCHANGED <<gardens, modal_functions, saved>>

PutEntrypoint(e, b, owner) ==
    /\ \A f \in Kept(entrypoints) :
        entrypoints[f].doi = b.doi \/ entrypoints[f].func = b.func => f = e
    /\ WriteEntrypoint(e,
        [owner |-> Or(b.owner_identity_id, owner), doi |-> b.doi,
         doi_is_draft |-> b.doi_is_draft, is_archived |-> b.is_archived, func |-> b.func])

CreateEntrypoint(e, u, b) == entrypoints[e] = NULL /\ PutEntrypoint(e, b, u)
ReplaceEntrypoint(e, u, b) ==
    e \in Kept(entrypoints) /\ Mine(entrypoints[e], u) /\ PutEntrypoint(e, b, u)

PatchEntrypoint(e, u, p) ==
    LET row == entrypoints[e]
        draft == Or(p.doi_is_draft, row.doi_is_draft)
        archived == Or(p.is_archived, row.is_archived)
        func == Or(p.func, row.func)
    IN  /\ e \in Kept(entrypoints) /\ Editable(row, p, u) /\ ~(archived /\ draft)
        /\ draft \/ p.func = NULL
        /\ \A f \in Kept(entrypoints) : entrypoints[f].func = func => f = e
        /\ WriteEntrypoint(e,
            [owner |-> row.owner, doi |-> row.doi, doi_is_draft |-> draft,
             is_archived |-> archived, func |-> func])

DeleteEntrypoint(e, u) ==
    /\ e \in Kept(entrypoints) /\ Mine(entrypoints[e], u)
    /\ \A g \in Kept(gardens) : e \notin gardens[g].entrypoints
    /\ WriteEntrypoint(e, GONE)

-----------------------------------------------------------------------------
(* Saved gardens and functions *)

ChangeSaved(s) == saved' = s /\ UNCHANGED <<gardens, entrypoints, modal_functions>>

SaveGarden(g, u) == g \in Kept(gardens) /\ ChangeSaved(saved \cup {<<u, g>>})
RemoveSaved(g, u) == ChangeSaved(saved \ {<<u, g>>})

DeleteFunction(f) ==
    /\ \A g \in Kept(gardens) : f \notin gardens[g].modal_functions
    /\ modal_functions' = modal_functions \ {f}
    /\ UNCHANGED <<gardens, entrypoints, saved>>

-----------------------------------------------------------------------------
Init ==
    /\ gardens = [g \in GardenId |-> NULL]
    /\ entrypoints = [e \in EntrypointId |-> NULL]
    /\ modal_functions = ModalFnId
    /\ saved = {}

GardenRoute(g, u) ==
    \/ \E b \in GardenBodies : CreateGarden(g, u, b) \/ ReplaceGarden(g, u, b)
    \/ \E p \in GardenPatches : PatchGarden(g, u, p)
    \/ DeleteGarden(g, u) \/ SaveGarden(g, u) \/ RemoveSaved(g, u)

EntrypointRoute(e, u) ==
    \/ \E b \in EntrypointBodies : CreateEntrypoint(e, u, b) \/ ReplaceEntrypoint(e, u, b)
    \/ \E p \in EntrypointPatches : PatchEntrypoint(e, u, p)
    \/ DeleteEntrypoint(e, u)

Next ==
    \/ \E u \in User, g \in GardenId : GardenRoute(g, u)
    \/ \E u \in User, e \in EntrypointId : EntrypointRoute(e, u)
    \/ \E f \in modal_functions : DeleteFunction(f)

Spec == Init /\ [][Next]_rows
=============================================================================
