---------------------------- MODULE SavedGardens ----------------------------
(***************************************************************************)
(* Saving and un-saving a garden (api/routes/users.py). A request looks    *)
(* the garden up, then refreshes the user's list, then commits the row the *)
(* list gained or lost.                                                    *)
(***************************************************************************)
EXTENDS CatalogDB

CONSTANT SaveReq    \* save and un-save requests in flight at once

VARIABLE sreq

SIdle == [pc |-> "idle"]

SaveRequest ==
    [pc : {"refresh", "commit"}, op : {"save", "remove"}, user : User, id : GardenId]

SaveReqTypeOK == sreq \in [SaveReq -> SaveRequest \cup {SIdle}]

SavedInit == sreq = [r \in SaveReq |-> SIdle]

SGoto(r, q) == sreq' = [sreq EXCEPT ![r] = q]

\* Garden.get: another user's list is a 401, an unknown DOI a 404.
FindGarden(r, u, d, op) ==
    \E g \in ByDoi(gardens, d) :
        /\ sreq[r].pc = "idle"
        /\ SGoto(r, [pc |-> "refresh", op |-> op, user |-> u, id |-> g])
        /\ UNCHANGED <<tables, datacite>>

\* db.refresh(user, ["saved_gardens"]); nothing to flush if the list needs no change.
RefreshSaved(r) ==
    LET q == sreq[r]
        listed == <<q.user, q.id>> \in saved
    IN  /\ q.pc = "refresh"
        /\ SGoto(r, IF listed = (q.op = "save") THEN SIdle ELSE [q EXCEPT !.pc = "commit"])
        /\ UNCHANGED <<tables, datacite>>

\* A row another request has inserted, or a garden that is gone, is a 409.
CommitSave(r) ==
    LET q == sreq[r] IN
    /\ q.pc = "commit" /\ q.op = "save"
    /\ saved' = IF q.id \in Live(gardens) THEN saved \cup {<<q.user, q.id>>} ELSE saved
    /\ SGoto(r, SIdle)
    /\ UNCHANGED <<gardens, entrypoints, modal_functions, datacite>>

CommitRemove(r) ==
    LET q == sreq[r] IN
    /\ q.pc = "commit" /\ q.op = "remove"
    /\ saved' = saved \ {<<q.user, q.id>>}
    /\ SGoto(r, SIdle)
    /\ UNCHANGED <<gardens, entrypoints, modal_functions, datacite>>

SaveStep(r) ==
    \/ \E u \in User, d \in Doi, op \in {"save", "remove"} : FindGarden(r, u, d, op)
    \/ RefreshSaved(r)
    \/ CommitSave(r)
    \/ CommitRemove(r)

SavedNext == \E r \in SaveReq : SaveStep(r)

SavedRestart == sreq' = [r \in SaveReq |-> SIdle]
=============================================================================
