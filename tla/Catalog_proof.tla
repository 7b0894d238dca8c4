---------------------------- MODULE Catalog_proof ----------------------------
(***************************************************************************)
(* Proofs about Catalog, for any users, keys, DOIs, payloads and numbers   *)
(* of requests in flight.                                                  *)
(***************************************************************************)
EXTENDS Catalog, Gardens_proof, Entrypoints_proof

\* The inductive invariant: well-formed tables with the keys and references the
\* properties ask for, and requests that carry a row which passed its checks.
Inv ==
    /\ TablesTypeOK
    /\ GardenTablesOK /\ EntrypointKeysUnique
    /\ GardenReqOK /\ EntrypointReqOK /\ SaveReqTypeOK

LEMMA InvInit == Init => Inv
<1> SUFFICES ASSUME Init PROVE Inv
    OBVIOUS
<1>1. TablesTypeOK
    BY DEF Init, TablesInit, TablesTypeOK, DoiState
<1>2. Live(gardens) = {} /\ Live(entrypoints) = {} /\ saved = {}
    BY DEF Init, TablesInit, Live
<1>3. GardenTablesOK /\ EntrypointKeysUnique
    BY <1>2 DEF GardenTablesOK, GardenMembersExist, SavedGardensExist, GardenDoisUnique,
                EntrypointKeysUnique
<1>4. SaveReqTypeOK
    BY DEF Init, SavedInit, SaveReqTypeOK
<1> QED BY <1>1, <1>3, <1>4, GardenReqInit, EntrypointReqInit DEF Init, Inv

-----------------------------------------------------------------------------
(* The steps of each component *)

LEMMA GardenStepFrame ==
    ASSUME NEW r \in GardenReq, GardenStep(r) PROVE UNCHANGED entrypoints
BY DEF GardenStep, AddGarden, ReplaceGarden, UpdateGarden, DeleteGarden,
       ResolveDraft, CollectMembers, CommitCreate, CommitUpdate, CommitDelete,
       ArchiveGarden, ReadOnly, tables

LEMMA EntrypointStepFrame ==
    ASSUME NEW r \in EntrypointReq, EntrypointStep(r)
    PROVE  UNCHANGED <<gardens, modal_functions, saved>>
BY DEF EntrypointStep, AddEntrypoint, ReplaceEntrypoint, UpdateEntrypoint,
       DeleteEntrypoint, Arrive, CommitNewEntrypoint, CommitUpdatedEntrypoint,
       CommitDeletedEntrypoint, ArchiveEntrypoint, tables

LEMMA GardensKeepInv ==
    Inv /\ GardensNext /\ UNCHANGED <<ereq, sreq>> => Inv'
<1> SUFFICES ASSUME Inv, GardensNext, UNCHANGED <<ereq, sreq>> PROVE Inv'
    OBVIOUS
<1>1. PICK r \in GardenReq : GardenStep(r)
    BY DEF GardensNext
<1>2. TablesTypeOK' /\ GardenTablesOK' /\ GardenReqOK'
    BY <1>1, GardenStepKeeps DEF Inv
<1>3. UNCHANGED entrypoints
    BY <1>1, GardenStepFrame
<1>4. EntrypointKeysUnique' /\ EntrypointReqOK' /\ SaveReqTypeOK'
    BY <1>3 DEF Inv, EntrypointKeysUnique, EntrypointReqOK, SaveReqTypeOK, Live
<1> QED BY <1>2, <1>4 DEF Inv

LEMMA EntrypointsKeepInv ==
    Inv /\ EntrypointsNext /\ UNCHANGED <<greq, sreq>> => Inv'
<1> SUFFICES ASSUME Inv, EntrypointsNext, UNCHANGED <<greq, sreq>> PROVE Inv'
    OBVIOUS
<1>1. PICK r \in EntrypointReq : EntrypointStep(r)
    BY DEF EntrypointsNext
<1>2. TablesTypeOK' /\ EntrypointKeysUnique' /\ MembersStay /\ EntrypointReqOK'
    BY <1>1, EntrypointStepKeeps DEF Inv
<1>3. UNCHANGED <<gardens, modal_functions, saved>>
    BY <1>1, EntrypointStepFrame
<1>4. GardenMembersExist'
    BY <1>2, <1>3 DEF Inv, GardenTablesOK, GardenMembersExist, MembersStay, Live
<1>5. SavedGardensExist' /\ GardenDoisUnique'
    BY <1>3 DEF Inv, GardenTablesOK, SavedGardensExist, GardenDoisUnique, Live
<1>6. GardenReqOK' /\ SaveReqTypeOK'
    BY DEF Inv, GardenReqOK, SaveReqTypeOK
<1> QED BY <1>2, <1>4, <1>5, <1>6 DEF Inv, GardenTablesOK

\* A slot's moves keep its record well formed.
LEMMA SGotoKeeps ==
    ASSUME SaveReqTypeOK, NEW r \in SaveReq, NEW q \in SaveRequest \cup {SIdle}, SGoto(r, q)
    PROVE  SaveReqTypeOK'
BY DEF SaveReqTypeOK, SGoto

LEMMA SaveStepKeeps ==
    ASSUME TablesTypeOK, GardenTablesOK, SaveReqTypeOK, NEW r \in SaveReq, SaveStep(r)
    PROVE  /\ UNCHANGED <<gardens, entrypoints, modal_functions, datacite>>
           /\ saved' \subseteq User \X GardenId /\ SavedGardensExist' /\ SaveReqTypeOK'
<1>1. sreq[r] # SIdle => sreq[r] \in SaveRequest
    BY DEF SaveReqTypeOK
<1>2. saved \subseteq User \X GardenId /\ \A s \in saved : s[2] \in Live(gardens)
    BY DEF TablesTypeOK, GardenTablesOK, SavedGardensExist
<1>3. ASSUME NEW u \in User, NEW d \in Doi, NEW op \in {"save", "remove"},
             FindGarden(r, u, d, op)
      PROVE  SaveReqTypeOK' /\ UNCHANGED <<tables, datacite>>
    <2>1. PICK g \in ByDoi(gardens, d) :
            SGoto(r, [pc |-> "refresh", op |-> op, user |-> u, id |-> g])
        BY <1>3 DEF FindGarden
    <2>2. g \in GardenId
        BY ByDoiRows
    <2>3. [pc |-> "refresh", op |-> op, user |-> u, id |-> g] \in SaveRequest
        BY <2>2 DEF SaveRequest
    <2> QED BY <1>3, <2>1, <2>3, SGotoKeeps DEF FindGarden
<1>4. CASE RefreshSaved(r)
    <2> DEFINE q == sreq[r]
    <2>1. q \in SaveRequest
        BY <1>1, <1>4 DEF RefreshSaved, SIdle
    <2>2. [q EXCEPT !.pc = "commit"] \in SaveRequest
        BY <2>1 DEF SaveRequest
    <2>3. SaveReqTypeOK'
        BY <1>4, <2>2, SGotoKeeps DEF RefreshSaved
    <2> QED BY <1>2, <1>4, <2>3 DEF RefreshSaved, tables, SavedGardensExist, Live
<1>5. CASE CommitSave(r)
    <2> DEFINE q == sreq[r]
    <2>1. q \in SaveRequest
        BY <1>1, <1>5 DEF CommitSave, SIdle
    <2>2. q.user \in User /\ q.id \in GardenId
        BY <2>1 DEF SaveRequest
    <2>3. SaveReqTypeOK'
        BY <1>5, SGotoKeeps DEF CommitSave
    <2>4. UNCHANGED <<gardens, entrypoints, modal_functions, datacite>>
        BY <1>5 DEF CommitSave
    <2>5. \/ saved' = saved
          \/ saved' = saved \cup {<<q.user, q.id>>} /\ q.id \in Live(gardens)
        BY <1>5 DEF CommitSave
    <2> HIDE DEF q
    <2>6. saved' \subseteq User \X GardenId /\ \A s \in saved' : s[2] \in Live(gardens)
        BY <1>2, <2>2, <2>5
    <2> QED BY <2>3, <2>4, <2>6 DEF SavedGardensExist, Live
<1>6. CASE CommitRemove(r)
    <2>1. SaveReqTypeOK'
        BY <1>6, SGotoKeeps DEF CommitRemove
    <2> QED BY <1>2, <1>6, <2>1 DEF CommitRemove, SavedGardensExist, Live
<1>7. UNCHANGED <<tables, datacite>> =>
        /\ UNCHANGED <<gardens, entrypoints, modal_functions, datacite>>
        /\ saved' \subseteq User \X GardenId /\ SavedGardensExist'
    BY <1>2 DEF tables, SavedGardensExist, Live
<1> QED BY <1>3, <1>4, <1>5, <1>6, <1>7 DEF SaveStep

LEMMA SavedKeepInv ==
    Inv /\ SavedNext /\ UNCHANGED <<greq, ereq>> => Inv'
<1> SUFFICES ASSUME Inv, SavedNext, UNCHANGED <<greq, ereq>> PROVE Inv'
    OBVIOUS
<1>1. /\ UNCHANGED <<gardens, entrypoints, modal_functions, datacite>>
      /\ saved' \subseteq User \X GardenId /\ SavedGardensExist' /\ SaveReqTypeOK'
    BY SaveStepKeeps DEF SavedNext, Inv
<1>2. TablesTypeOK'
    BY <1>1 DEF Inv, TablesTypeOK
<1>3. GardenMembersExist' /\ GardenDoisUnique' /\ EntrypointKeysUnique'
    BY <1>1 DEF Inv, GardenTablesOK, GardenMembersExist, GardenDoisUnique,
                EntrypointKeysUnique, Live
<1>4. GardenReqOK' /\ EntrypointReqOK'
    BY DEF Inv, GardenReqOK, EntrypointReqOK
<1> QED BY <1>1, <1>2, <1>3, <1>4 DEF Inv, GardenTablesOK

LEMMA DoisKeepInv ==
    Inv /\ DoisNext /\ UNCHANGED <<greq, ereq, sreq>> => Inv'
<1> SUFFICES ASSUME Inv, DoisNext, UNCHANGED <<greq, ereq, sreq>> PROVE Inv'
    OBVIOUS
<1>1. UNCHANGED tables /\ datacite' \in [Doi -> DoiState]
    BY DoiEventsAssumption
       DEF DoisNext, MintDraftDoi, UpdateDatacite, Inv, TablesTypeOK, DoiState
<1>2. TablesTypeOK'
    BY <1>1 DEF Inv, TablesTypeOK, tables
<1> QED BY <1>1, <1>2 DEF Inv, tables, GardenTablesOK, GardenMembersExist,
        SavedGardensExist, GardenDoisUnique, EntrypointKeysUnique, Live,
        GardenReqOK, EntrypointReqOK, SaveReqTypeOK

LEMMA DeleteFunctionKeepsInv ==
    ASSUME Inv, NEW f \in modal_functions, DeleteModalFunction(f)
    PROVE  Inv'
<1>1. /\ UNCHANGED <<gardens, entrypoints, saved, datacite, greq, ereq, sreq>>
      /\ modal_functions' = modal_functions \ {f}
    BY DEF DeleteModalFunction
<1>2. TablesTypeOK'
    BY <1>1 DEF Inv, TablesTypeOK
<1>3. GardenMembersExist'
    BY <1>1 DEF DeleteModalFunction, Inv, GardenTablesOK, GardenMembersExist, Live
<1> QED BY <1>1, <1>2, <1>3 DEF Inv, GardenTablesOK, SavedGardensExist,
        GardenDoisUnique, EntrypointKeysUnique, Live, GardenReqOK, EntrypointReqOK,
        SaveReqTypeOK

LEMMA RestartKeepsInv == Inv /\ (Restart \/ UNCHANGED vars) => Inv'
<1> SUFFICES ASSUME Inv, Restart \/ UNCHANGED vars PROVE Inv'
    OBVIOUS
<1>1. UNCHANGED <<tables, datacite>>
    BY DEF Restart, vars
<1>2. GardenReqOK' /\ EntrypointReqOK' /\ SaveReqTypeOK'
    BY DEF Inv, Restart, vars, GardensRestart, EntrypointsRestart, SavedRestart,
           GardenReqOK, EntrypointReqOK, SaveReqTypeOK
<1> QED BY <1>1, <1>2, UnchangedTablesKeep, EUnchangedTablesKeep DEF Inv

LEMMA InvNext == Inv /\ [Next]_vars => Inv'
BY GardensKeepInv, EntrypointsKeepInv, SavedKeepInv, DoisKeepInv,
   DeleteFunctionKeepsInv, RestartKeepsInv
   DEF Next

LEMMA InvImplies == Inv => TypeOK /\ UniqueKeys /\ ReferentialIntegrity
<1> SUFFICES ASSUME Inv PROVE TypeOK /\ UniqueKeys /\ ReferentialIntegrity
    OBVIOUS
<1>1. TypeOK
    BY GardenReqTyped, EntrypointReqTyped DEF Inv, TypeOK
<1>2. UniqueKeys
    BY DEF Inv, UniqueKeys, GardenTablesOK, GardenDoisUnique, EntrypointKeysUnique
<1>3. ReferentialIntegrity
    BY DEF Inv, ReferentialIntegrity, GardenTablesOK, GardenMembersExist, SavedGardensExist
<1> QED BY <1>1, <1>2, <1>3

LEMMA InvAlways == Spec => []Inv
BY InvInit, InvNext, PTL DEF Spec

\* Tables and requests keep their types, whatever requests overlap and wherever
\* the service restarts.
THEOREM TypesKept == Spec => []TypeOK
BY InvAlways, InvImplies, PTL

\* A DOI is one garden's and one entrypoint's, a func_uuid one entrypoint's.
THEOREM KeysUnique == Spec => []UniqueKeys
BY InvAlways, InvImplies, PTL

\* No garden and no saved list comes to name a row that does not exist.
THEOREM ReferencesSound == Spec => []ReferentialIntegrity
BY InvAlways, InvImplies, PTL

-----------------------------------------------------------------------------
(* Who changes a row *)

AuthorisedGardenWrite(g) ==
    \E r \in GardenReq :
        /\ greq[r].pc = "commit" /\ greq[r].op # "create" /\ greq[r].id = g
        /\ MayWriteGarden(greq[r], gardens[g], gardens'[g])

LEMMA CommitsAuthorised ==
    ASSUME TablesTypeOK, GardenReqOK, NEW r \in GardenReq, GardenStep(r),
           NEW g \in Live(gardens), gardens'[g] # gardens[g]
    PROVE  AuthorisedGardenWrite(g)
<1> DEFINE q == greq[r]
<1>1. gardens \in GardenTable /\ g \in GardenId /\ gardens[g] \in GardenRow
    <2>1. gardens \in GardenTable
        BY DEF TablesTypeOK, GardenTable
    <2> QED BY <2>1, LiveGardens
<1>2. ~UNCHANGED gardens
    OBVIOUS
<1>3. CommitCreate(r) \/ CommitUpdate(r) \/ CommitDelete(r)
    BY <1>2 DEF GardenStep, AddGarden, ReplaceGarden, UpdateGarden, DeleteGarden,
                ResolveDraft, CollectMembers, ArchiveGarden, ReadOnly, tables
<1>4. CASE CommitCreate(r)
    <2>1. PICK h \in Fresh(gardens) : gardens' = [gardens EXCEPT ![h] = q.obj]
        BY <1>2, <1>4 DEF CommitCreate
    <2>2. h # g
        BY DEF Fresh, Live
    <2> QED BY <1>1, <2>1, <2>2 DEF GardenTable
<1>5. CASE CommitUpdate(r)
    <2> DEFINE before == gardens[g]
               after == FlushedGarden(before, q.loaded, q.obj)
    <2>1. /\ q.pc = "commit" /\ q.op \in {"replace", "patch"}
          /\ gardens' = [gardens EXCEPT ![q.id] = FlushedGarden(@, q.loaded, q.obj)]
        BY <1>2, <1>5 DEF CommitUpdate, At
    <2>2. Checked(q) /\ q \in GardenRequest
        BY <2>1, Busy
    <2>3. q.id = g
        BY <1>1, <2>1 DEF GardenTable
    <2>4. gardens'[g] = after
        BY <1>1, <2>1, <2>3 DEF GardenTable
    <2>5. q.loaded \in GardenRow /\ q.obj \in GardenRow
        BY <2>1, <2>2 DEF Checked
    <2>6. after \in GardenRow
        BY <1>1, <2>5, FlushedRow
    <2>7. q.loaded.owner = q.user /\ (q.op = "replace" => q.loaded.doi_is_draft)
        BY <2>1, <2>2 DEF Checked, DeletableBy, EditableBy
    <2>8. q.op = "patch" =>
            /\ q.loaded.is_archived => q.body.is_archived = FALSE
            /\ q.obj.owner = q.loaded.owner /\ q.obj.doi = q.loaded.doi
            /\ q.obj.modal_functions = q.loaded.modal_functions
            /\ q.obj.entrypoints # q.loaded.entrypoints => q.loaded.doi_is_draft
        BY <2>1, <2>2 DEF Checked, EditableBy
    <2>9. /\ after.owner = FlushColumn(before.owner, q.loaded.owner, q.obj.owner)
          /\ after.doi = FlushColumn(before.doi, q.loaded.doi, q.obj.doi)
          /\ after.entrypoints
                = FlushSet(before.entrypoints, q.loaded.entrypoints, q.obj.entrypoints)
          /\ after.modal_functions = FlushSet(before.modal_functions,
                q.loaded.modal_functions, q.obj.modal_functions)
        BY DEF FlushedGarden
    <2> HIDE DEF q, before, after
    <2>10. /\ q.obj.owner = q.loaded.owner => after.owner = before.owner
           /\ q.obj.doi = q.loaded.doi => after.doi = before.doi
        BY <2>9 DEF FlushColumn
    <2>11. /\ q.obj.entrypoints = q.loaded.entrypoints
                => after.entrypoints = before.entrypoints
           /\ q.obj.modal_functions = q.loaded.modal_functions
                => after.modal_functions = before.modal_functions
        BY <2>9 DEF FlushSet
    <2>12. MayWriteGarden(q, before, after)
        BY <2>1, <2>6, <2>7, <2>8, <2>10, <2>11, NoRowAssumption DEF MayWriteGarden
    <2> QED BY <2>1, <2>3, <2>4, <2>12 DEF AuthorisedGardenWrite, q, before
<1>6. CASE CommitDelete(r)
    <2>1. /\ q.pc = "commit" /\ q.op = "delete"
          /\ gardens' = [gardens EXCEPT ![q.id] = GONE]
        BY <1>2, <1>6 DEF CommitDelete, At
    <2>2. q.id = g
        BY <1>1, <2>1 DEF GardenTable
    <2>3. q.loaded.owner = q.user /\ q.loaded.doi_is_draft
        BY <2>1, Busy DEF Checked, DeletableBy
    <2> QED BY <2>1, <2>2, <2>3 DEF AuthorisedGardenWrite, MayWriteGarden
<1> QED BY <1>3, <1>4, <1>5, <1>6

LEMMA GardenRowsAuthorised ==
    ASSUME Inv, [Next]_vars, NEW g \in Live(gardens), gardens'[g] # gardens[g]
    PROVE  AuthorisedGardenWrite(g)
<1>1. ~UNCHANGED gardens
    OBVIOUS
<1>2. GardensNext
    <2>1. SavedNext => UNCHANGED gardens
        BY SaveStepKeeps DEF SavedNext, Inv
    <2>2. EntrypointsNext => UNCHANGED gardens
        BY EntrypointStepFrame DEF EntrypointsNext
    <2> QED BY <1>1, <2>1, <2>2
            DEF Next, DoisNext, MintDraftDoi, UpdateDatacite, DeleteModalFunction,
                Restart, vars, tables
<1> QED BY <1>2, CommitsAuthorised DEF GardensNext, Inv

\* A garden's row changes only in the commit of a request whose user owned the
\* row it loaded and whose route allows the change.
THEOREM GardensAuthorised == Spec => GardenWritesAuthorised
<1> DEFINE Step == \A g \in Live(gardens) : gardens'[g] # gardens[g] =>
        \E r \in GardenReq :
            /\ greq[r].pc = "commit" /\ greq[r].op # "create" /\ greq[r].id = g
            /\ MayWriteGarden(greq[r], gardens[g], gardens'[g])
<1>1. Inv /\ [Next]_vars => Step
    BY GardenRowsAuthorised DEF AuthorisedGardenWrite
<1> QED BY <1>1, InvAlways, PTL DEF Spec, GardenWritesAuthorised

AuthorisedEntrypointWrite(e) ==
    \E r \in EntrypointReq :
        /\ ereq[r].pc = "commit" /\ ereq[r].op # "create" /\ ereq[r].id = e
        /\ MayWriteEntrypoint(ereq[r], entrypoints[e], entrypoints'[e])
        /\ \/ entrypoints'[e] = GONE
           \/ entrypoints'[e].func \in {entrypoints[e].func, ereq[r].obj.func}

LEMMA ECommitsAuthorised ==
    ASSUME TablesTypeOK, EntrypointReqOK, NEW r \in EntrypointReq, EntrypointStep(r),
           NEW e \in Live(entrypoints), entrypoints'[e] # entrypoints[e]
    PROVE  AuthorisedEntrypointWrite(e)
<1> DEFINE q == ereq[r]
<1>1. /\ entrypoints \in EntrypointTable /\ e \in EntrypointId
      /\ entrypoints[e] \in EntrypointRow
    <2>1. entrypoints \in EntrypointTable
        BY DEF TablesTypeOK, EntrypointTable
    <2> QED BY <2>1, LiveEntrypoints
<1>2. ~UNCHANGED entrypoints
    OBVIOUS
<1>3. CommitNewEntrypoint(r) \/ CommitUpdatedEntrypoint(r) \/ CommitDeletedEntrypoint(r)
    BY <1>2 DEF EntrypointStep, AddEntrypoint, ReplaceEntrypoint, UpdateEntrypoint,
                DeleteEntrypoint, Arrive, ArchiveEntrypoint, tables
<1>4. CASE CommitNewEntrypoint(r)
    <2>1. PICK h \in Fresh(entrypoints) : entrypoints' = [entrypoints EXCEPT ![h] = q.obj]
        BY <1>2, <1>4 DEF CommitNewEntrypoint
    <2>2. h # e
        BY DEF Fresh, Live
    <2> QED BY <1>1, <2>1, <2>2 DEF EntrypointTable
<1>5. CASE CommitUpdatedEntrypoint(r)
    <2> DEFINE before == entrypoints[e]
               after == FlushedEntrypoint(before, q.loaded, q.obj)
    <2>1. /\ q.pc = "commit" /\ q.op \in {"replace", "patch"}
          /\ entrypoints' =
                [entrypoints EXCEPT ![q.id] = FlushedEntrypoint(@, q.loaded, q.obj)]
        BY <1>2, <1>5 DEF CommitUpdatedEntrypoint, EAt
    <2>2. EChecked(q) /\ q \in EntrypointRequest
        BY <2>1, EBusy
    <2>3. q.id = e
        BY <1>1, <2>1 DEF EntrypointTable
    <2>4. entrypoints'[e] = after
        BY <1>1, <2>1, <2>3 DEF EntrypointTable
    <2>5. q.loaded \in EntrypointRow /\ q.obj \in EntrypointRow
        BY <2>1, <2>2 DEF EChecked
    <2>6. after \in EntrypointRow
        BY <1>1, <2>5, EFlushedRow
    <2>7. q.loaded.owner = q.user /\ (q.op = "replace" => q.loaded.doi_is_draft)
        BY <2>1, <2>2 DEF EChecked, DeletableBy, EditableBy
    <2>8. q.op = "patch" =>
            /\ q.loaded.is_archived => q.body.is_archived = FALSE
            /\ q.obj.owner = q.loaded.owner /\ q.obj.doi = q.loaded.doi
            /\ q.obj.func # q.loaded.func => q.obj.doi_is_draft
        BY <2>1, <2>2 DEF EChecked, EditableBy
    <2>9. /\ after.owner = FlushColumn(before.owner, q.loaded.owner, q.obj.owner)
          /\ after.doi = FlushColumn(before.doi, q.loaded.doi, q.obj.doi)
          /\ after.func = FlushColumn(before.func, q.loaded.func, q.obj.func)
        BY DEF FlushedEntrypoint
    <2> HIDE DEF q, before, after
    <2>10. /\ q.obj.owner = q.loaded.owner => after.owner = before.owner
           /\ q.obj.doi = q.loaded.doi => after.doi = before.doi
           /\ q.obj.func = q.loaded.func => after.func = before.func
           /\ after.func \in {before.func, q.obj.func}
        BY <2>9 DEF FlushColumn
    <2>11. MayWriteEntrypoint(q, before, after)
        BY <2>1, <2>6, <2>7, <2>8, <2>10, NoRowAssumption DEF MayWriteEntrypoint
    <2> QED BY <2>1, <2>3, <2>4, <2>10, <2>11 DEF AuthorisedEntrypointWrite, q, before
<1>6. CASE CommitDeletedEntrypoint(r)
    <2>1. /\ q.pc = "commit" /\ q.op = "delete"
          /\ entrypoints' = [entrypoints EXCEPT ![q.id] = GONE]
        BY <1>2, <1>6 DEF CommitDeletedEntrypoint, EAt
    <2>2. q.id = e
        BY <1>1, <2>1 DEF EntrypointTable
    <2>3. q.loaded.owner = q.user /\ q.loaded.doi_is_draft /\ entrypoints'[e] = GONE
        BY <1>1, <2>1, <2>2, EBusy DEF EChecked, DeletableBy, EntrypointTable
    <2> QED BY <2>1, <2>2, <2>3 DEF AuthorisedEntrypointWrite, MayWriteEntrypoint
<1> QED BY <1>3, <1>4, <1>5, <1>6

LEMMA EntrypointRowsAuthorised ==
    ASSUME Inv, [Next]_vars, NEW e \in Live(entrypoints), entrypoints'[e] # entrypoints[e]
    PROVE  AuthorisedEntrypointWrite(e)
<1>1. ~UNCHANGED entrypoints
    OBVIOUS
<1>2. EntrypointsNext
    <2>1. SavedNext => UNCHANGED entrypoints
        BY SaveStepKeeps DEF SavedNext, Inv
    <2>2. GardensNext => UNCHANGED entrypoints
        BY GardenStepFrame DEF GardensNext
    <2> QED BY <1>1, <2>1, <2>2
            DEF Next, DoisNext, MintDraftDoi, UpdateDatacite, DeleteModalFunction,
                Restart, vars, tables
<1> QED BY <1>2, ECommitsAuthorised DEF EntrypointsNext, Inv

\* The same for an entrypoint's row; its frozen attributes change only under a
\* request that leaves it a draft.
THEOREM EntrypointsAuthorised == Spec => EntrypointWritesAuthorised
<1> DEFINE Step == \A e \in Live(entrypoints) : entrypoints'[e] # entrypoints[e] =>
        \E r \in EntrypointReq :
            /\ ereq[r].pc = "commit" /\ ereq[r].op # "create" /\ ereq[r].id = e
            /\ MayWriteEntrypoint(ereq[r], entrypoints[e], entrypoints'[e])
<1>1. Inv /\ [Next]_vars => Step
    BY EntrypointRowsAuthorised DEF AuthorisedEntrypointWrite
<1> QED BY <1>1, InvAlways, PTL DEF Spec, EntrypointWritesAuthorised

-----------------------------------------------------------------------------
(* Published rows, when the requests that handle one row keep apart *)

LEMMA GardensCurrentNext ==
    Inv /\ GardensCurrent /\ GardensApart /\ [Next]_vars => GardensCurrent'
<1> SUFFICES ASSUME Inv, GardensCurrent, GardensApart, [Next]_vars
             PROVE  GardensCurrent'
    OBVIOUS
<1>1. CASE GardensNext
    BY <1>1, GardenStepCurrent DEF GardensNext, Inv
<1>2. CASE UNCHANGED <<gardens, greq>>
    BY <1>2 DEF GardensCurrent, Current, Live
<1>3. CASE Restart
    BY <1>3 DEF Restart, GardensRestart, GardensCurrent, Current, Idle
<1>4. CASE SavedNext /\ UNCHANGED <<greq, ereq>>
    BY <1>2, <1>4, SaveStepKeeps DEF SavedNext, Inv
<1>5. CASE EntrypointsNext /\ UNCHANGED <<greq, sreq>>
    BY <1>2, <1>5, EntrypointStepFrame DEF EntrypointsNext
<1> QED BY <1>1, <1>2, <1>3, <1>4, <1>5
        DEF Next, DoisNext, MintDraftDoi, UpdateDatacite, DeleteModalFunction, vars, tables

LEMMA GardensCurrentAlways == Spec /\ []GardensApart => []GardensCurrent
<1>1. Init => GardensCurrent
    BY CurrentInit DEF Init
<1> QED BY <1>1, GardensCurrentNext, InvAlways, PTL DEF Spec

\* A published garden is not deleted, transferred, renamed or given other members,
\* as long as no two requests in flight handle the same garden: the checks of
\* gardens.py at 165, 201 and 263 hold for the row the commit finds. Requests
\* that handle other gardens may overlap, and the service may restart.
THEOREM FrozenTheorem == Spec /\ []GardensApart => PublishedGardenFrozen
<1> DEFINE Step == \A g \in Live(gardens) : ~gardens[g].doi_is_draft =>
        /\ gardens'[g] # GONE
        /\ gardens'[g].owner = gardens[g].owner
        /\ gardens'[g].doi = gardens[g].doi
        /\ gardens'[g].entrypoints = gardens[g].entrypoints
        /\ gardens'[g].modal_functions = gardens[g].modal_functions
<1>1. Inv /\ GardensCurrent /\ [Next]_vars => Step
    <2> SUFFICES ASSUME Inv, GardensCurrent, [Next]_vars,
                        NEW g \in Live(gardens), ~gardens[g].doi_is_draft,
                        gardens'[g] # gardens[g]
                 PROVE  /\ gardens'[g] # GONE
                        /\ gardens'[g].owner = gardens[g].owner
                        /\ gardens'[g].doi = gardens[g].doi
                        /\ gardens'[g].entrypoints = gardens[g].entrypoints
                        /\ gardens'[g].modal_functions = gardens[g].modal_functions
        BY DEF Live
    <2>1. PICK r \in GardenReq :
            /\ greq[r].pc = "commit" /\ greq[r].op # "create" /\ greq[r].id = g
            /\ MayWriteGarden(greq[r], gardens[g], gardens'[g])
        BY GardenRowsAuthorised DEF AuthorisedGardenWrite
    <2>2. greq[r].loaded = gardens[g]
        BY <2>1 DEF GardensCurrent, Current
    <2>3. greq[r].op = "patch"
        BY <2>1, <2>2, Busy DEF Inv, GardenRequest, MayWriteGarden
    <2> QED BY <2>1, <2>2, <2>3 DEF MayWriteGarden
<1> QED BY <1>1, InvAlways, GardensCurrentAlways, PTL DEF Spec, PublishedGardenFrozen

\* In particular its entrypoints stay (gardens.py:261): what the run
\* published_members_race refutes is due to requests that overlap on one garden,
\* and to nothing else.
THEOREM MembersTheorem == Spec /\ []GardensApart => PublishedMembersFixed
<1>1. (\A g \in Live(gardens) : ~gardens[g].doi_is_draft =>
        /\ gardens'[g] # GONE
        /\ gardens'[g].owner = gardens[g].owner
        /\ gardens'[g].doi = gardens[g].doi
        /\ gardens'[g].entrypoints = gardens[g].entrypoints
        /\ gardens'[g].modal_functions = gardens[g].modal_functions)
      => (\A g \in Live(gardens) : ~gardens[g].doi_is_draft /\ gardens'[g] # GONE
            => gardens'[g].entrypoints = gardens[g].entrypoints)
    OBVIOUS
<1> QED BY <1>1, FrozenTheorem, PTL DEF PublishedGardenFrozen, PublishedMembersFixed

LEMMA EntrypointsCurrentNext ==
    Inv /\ EntrypointsCurrent /\ EntrypointsApart /\ [Next]_vars => EntrypointsCurrent'
<1> SUFFICES ASSUME Inv, EntrypointsCurrent, EntrypointsApart, [Next]_vars
             PROVE  EntrypointsCurrent'
    OBVIOUS
<1>1. CASE EntrypointsNext
    BY <1>1, EntrypointStepCurrent DEF EntrypointsNext, Inv
<1>2. CASE UNCHANGED <<entrypoints, ereq>>
    BY <1>2 DEF EntrypointsCurrent, ECurrent, Live
<1>3. CASE Restart
    BY <1>3 DEF Restart, EntrypointsRestart, EntrypointsCurrent, ECurrent, EIdle
<1>4. CASE SavedNext /\ UNCHANGED <<greq, ereq>>
    BY <1>2, <1>4, SaveStepKeeps DEF SavedNext, Inv
<1>5. CASE GardensNext /\ UNCHANGED <<ereq, sreq>>
    BY <1>2, <1>5, GardenStepFrame DEF GardensNext
<1> QED BY <1>1, <1>2, <1>3, <1>4, <1>5
        DEF Next, DoisNext, MintDraftDoi, UpdateDatacite, DeleteModalFunction, vars, tables

LEMMA EntrypointsCurrentAlways == Spec /\ []EntrypointsApart => []EntrypointsCurrent
<1>1. Init => EntrypointsCurrent
    BY ECurrentInit DEF Init
<1> QED BY <1>1, EntrypointsCurrentNext, InvAlways, PTL DEF Spec

\* A published entrypoint is not deleted, transferred or renamed, as long as no
\* two requests in flight handle the same entrypoint (entrypoints.py at 103 and
\* 136).
THEOREM KeptTheorem == Spec /\ []EntrypointsApart => PublishedEntrypointKept
<1> DEFINE Step == \A e \in Live(entrypoints) : ~entrypoints[e].doi_is_draft =>
        /\ entrypoints'[e] # GONE
        /\ entrypoints'[e].owner = entrypoints[e].owner
        /\ entrypoints'[e].doi = entrypoints[e].doi
<1>1. Inv /\ EntrypointsCurrent /\ [Next]_vars => Step
    <2> SUFFICES ASSUME Inv, EntrypointsCurrent, [Next]_vars,
                        NEW e \in Live(entrypoints), ~entrypoints[e].doi_is_draft,
                        entrypoints'[e] # entrypoints[e]
                 PROVE  /\ entrypoints'[e] # GONE
                        /\ entrypoints'[e].owner = entrypoints[e].owner
                        /\ entrypoints'[e].doi = entrypoints[e].doi
        BY DEF Live
    <2>1. PICK r \in EntrypointReq :
            /\ ereq[r].pc = "commit" /\ ereq[r].op # "create" /\ ereq[r].id = e
            /\ MayWriteEntrypoint(ereq[r], entrypoints[e], entrypoints'[e])
        BY EntrypointRowsAuthorised DEF AuthorisedEntrypointWrite
    <2>2. ereq[r].loaded = entrypoints[e]
        BY <2>1 DEF EntrypointsCurrent, ECurrent
    <2>3. ereq[r].op = "patch"
        BY <2>1, <2>2, EBusy DEF Inv, EntrypointRequest, MayWriteEntrypoint
    <2> QED BY <2>1, <2>2, <2>3 DEF MayWriteEntrypoint
<1> QED BY <1>1, InvAlways, EntrypointsCurrentAlways, PTL DEF Spec, PublishedEntrypointKept

\* The one payload the check of entrypoints.py:197 lets through: a PATCH that makes
\* a draft of the entrypoint again and gives it other attributes at once.
NoneWithdrawsAndRebuilds ==
    \A p \in EntrypointPatches : p.doi_is_draft = TRUE => p.func = NULL

\* Without that payload, and with no two requests on one entrypoint, the frozen
\* attributes of a published entrypoint stay: nothing else refutes the comment of
\* entrypoints.py:197 in the run published_entrypoint_rebuilt.
THEOREM RebuiltTheorem ==
    ASSUME NoneWithdrawsAndRebuilds
    PROVE  Spec /\ []EntrypointsApart => PublishedEntrypointFrozen
<1> DEFINE Step == \A e \in Live(entrypoints) :
                        ~entrypoints[e].doi_is_draft /\ entrypoints'[e] # GONE
                            => entrypoints'[e].func = entrypoints[e].func
<1>1. Inv /\ EntrypointsCurrent /\ [Next]_vars => Step
    <2> SUFFICES ASSUME Inv, EntrypointsCurrent, [Next]_vars,
                        NEW e \in Live(entrypoints), ~entrypoints[e].doi_is_draft,
                        entrypoints'[e].func # entrypoints[e].func
                 PROVE  entrypoints'[e] = GONE
        OBVIOUS
    <2>1. entrypoints'[e] # entrypoints[e]
        OBVIOUS
    <2>2. PICK r \in EntrypointReq :
            /\ ereq[r].pc = "commit" /\ ereq[r].op # "create" /\ ereq[r].id = e
            /\ MayWriteEntrypoint(ereq[r], entrypoints[e], entrypoints'[e])
            /\ \/ entrypoints'[e] = GONE
               \/ entrypoints'[e].func \in {entrypoints[e].func, ereq[r].obj.func}
        BY <2>1, EntrypointRowsAuthorised DEF AuthorisedEntrypointWrite
    <2>3. ereq[r].loaded = entrypoints[e] /\ EChecked(ereq[r])
        BY <2>2, EBusy DEF Inv, EntrypointsCurrent, ECurrent
    <2>4. ereq[r].op # "patch"
        BY <2>2, <2>3 DEF EChecked, NoneWithdrawsAndRebuilds, MayWriteEntrypoint
    <2>5. ereq[r].op \in {"replace", "delete"}
        BY <2>2, <2>4, EBusy DEF Inv, EntrypointRequest
    <2> QED BY <2>2, <2>3, <2>5 DEF MayWriteEntrypoint
<1> QED BY <1>1, InvAlways, EntrypointsCurrentAlways, PTL DEF Spec, PublishedEntrypointFrozen

-----------------------------------------------------------------------------
(* DataCite follows the catalogue *)

\* The DOI routes only publish, and no entrypoint is archived: what is left to
\* take a DOI out of DataCite's index is an archiving PATCH of a garden.
OnlyGardensHide ==
    /\ DoiEvents \subseteq {"findable"}
    /\ \A p \in EntrypointPatches : p.is_archived # TRUE

LEMMA NoEntrypointHides ==
    ASSUME Inv, OnlyGardensHide, NEW r \in EntrypointReq PROVE ereq[r].pc # "hide"
BY EBusy DEF Inv, OnlyGardensHide, EChecked

\* When a garden's archive is the only thing that hides a DOI and no two requests
\* handle one garden at once, a DOI leaves DataCite's index only while a garden
\* under that DOI is archived in the table (gardens.py:281-283).
THEOREM HiddenTheorem ==
    ASSUME OnlyGardensHide
    PROVE  Spec /\ []GardensApart => HiddenIsArchived
<1> DEFINE Step == \A d \in Doi : datacite[d] = "findable" /\ datacite'[d] = "registered" =>
                        \E g \in ByDoi(gardens, d) : gardens[g].is_archived
<1>1. Inv /\ GardensCurrent /\ [Next]_vars => Step
    <2> SUFFICES ASSUME Inv, GardensCurrent, [Next]_vars, NEW d \in Doi,
                        datacite[d] = "findable", datacite'[d] = "registered"
                 PROVE  \E g \in ByDoi(gardens, d) : gardens[g].is_archived
        OBVIOUS
    <2>1. datacite \in [Doi -> DoiState] /\ ~UNCHANGED datacite
        BY DEF Inv, TablesTypeOK
    <2>2. \A c : HideOnDatacite(c) => c = d
        BY <2>1 DEF HideOnDatacite
    <2>3. ~DoisNext
        BY <2>1 DEF DoisNext, MintDraftDoi, UpdateDatacite, OnlyGardensHide
    <2>4. SavedNext => UNCHANGED datacite
        BY SaveStepKeeps DEF SavedNext, Inv
    <2>5. ~EntrypointsNext
        <3> SUFFICES ASSUME NEW r \in EntrypointReq, EntrypointStep(r) PROVE FALSE
            BY DEF EntrypointsNext
        <3>1. ~ArchiveEntrypoint(r)
            BY NoEntrypointHides DEF ArchiveEntrypoint, EAt
        <3> QED BY <2>1, <3>1
                DEF EntrypointStep, AddEntrypoint, ReplaceEntrypoint,
                    UpdateEntrypoint, DeleteEntrypoint, Arrive, CommitNewEntrypoint,
                    CommitUpdatedEntrypoint, CommitDeletedEntrypoint
    <2>6. GardensNext
        BY <2>1, <2>3, <2>4, <2>5 DEF Next, DeleteModalFunction, Restart, vars
    <2>7. PICK r \in GardenReq : ArchiveGarden(r)
        BY <2>1, <2>6 DEF GardensNext, GardenStep, AddGarden, ReplaceGarden, UpdateGarden,
               DeleteGarden, ResolveDraft, CollectMembers, CommitCreate, CommitUpdate,
               CommitDelete, ReadOnly
    <2>8. greq[r].pc = "hide" /\ greq[r].loaded.doi = d
        BY <2>1, <2>2, <2>7 DEF ArchiveGarden, At
    <2>9. /\ greq[r].id \in Live(gardens)
          /\ gardens[greq[r].id].doi = d /\ gardens[greq[r].id].is_archived
        BY <2>8 DEF GardensCurrent, Current
    <2> QED BY <2>9 DEF ByDoi
<1> QED BY <1>1, InvAlways, GardensCurrentAlways, PTL DEF Spec, HiddenIsArchived

-----------------------------------------------------------------------------
(* Routes that take effect at once *)

LEMMA GardensFaithfulNext == Inv /\ GardensFaithful /\ [Next]_vars => GardensFaithful'
<1> SUFFICES ASSUME Inv, GardensFaithful, [Next]_vars PROVE GardensFaithful'
    OBVIOUS
<1>1. CASE GardensNext
    BY <1>1, GardenStepFaithful DEF GardensNext, Inv
<1>2. CASE UNCHANGED greq
    BY <1>2 DEF GardensFaithful
<1>3. CASE Restart
    BY <1>3, IdleFaithful DEF Restart, GardensRestart, GardensFaithful
<1> QED BY <1>1, <1>2, <1>3 DEF Next, DeleteModalFunction, vars

LEMMA EntrypointsFaithfulNext ==
    Inv /\ EntrypointsFaithful /\ [Next]_vars => EntrypointsFaithful'
<1> SUFFICES ASSUME Inv, EntrypointsFaithful, [Next]_vars PROVE EntrypointsFaithful'
    OBVIOUS
<1>1. CASE EntrypointsNext
    BY <1>1, EntrypointStepFaithful DEF EntrypointsNext, Inv
<1>2. CASE UNCHANGED ereq
    BY <1>2 DEF EntrypointsFaithful
<1>3. CASE Restart
    BY <1>3, EIdleFaithful DEF Restart, EntrypointsRestart, EntrypointsFaithful
<1> QED BY <1>1, <1>2, <1>3 DEF Next, DeleteModalFunction, vars

LEMMA FaithfulAlways == Spec => [](GardensFaithful /\ EntrypointsFaithful)
<1>1. Init => GardensFaithful /\ EntrypointsFaithful
    BY FaithfulInit, EFaithfulInit DEF Init
<1> QED BY <1>1, GardensFaithfulNext, EntrypointsFaithfulNext, InvAlways, PTL DEF Spec

\* A flush over the row that was loaded leaves the object.
LEMMA FlushCurrentColumn == \A l, o : FlushColumn(l, l, o) = o
BY DEF FlushColumn

LEMMA FlushCurrentSet == \A S : \A l, o \in SUBSET S : FlushSet(l, l, o) = o
BY DEF FlushSet

LEMMA FlushCurrentGarden ==
    ASSUME NEW loaded \in GardenRow, NEW obj \in GardenRow
    PROVE  FlushedGarden(loaded, loaded, obj) = obj
<1>1. /\ FlushSet(loaded.entrypoints, loaded.entrypoints, obj.entrypoints) = obj.entrypoints
      /\ FlushSet(loaded.modal_functions, loaded.modal_functions, obj.modal_functions)
            = obj.modal_functions
    BY RowFields, FlushCurrentSet
<1>2. obj = [owner |-> obj.owner, doi |-> obj.doi, doi_is_draft |-> obj.doi_is_draft,
             is_archived |-> obj.is_archived, entrypoints |-> obj.entrypoints,
             modal_functions |-> obj.modal_functions]
    BY DEF GardenRow
<1> QED BY <1>1, <1>2, FlushCurrentColumn DEF FlushedGarden

LEMMA FlushCurrentEntrypoint ==
    ASSUME NEW loaded \in EntrypointRow, NEW obj \in EntrypointRow
    PROVE  FlushedEntrypoint(loaded, loaded, obj) = obj
<1>1. obj = [owner |-> obj.owner, doi |-> obj.doi, doi_is_draft |-> obj.doi_is_draft,
             is_archived |-> obj.is_archived, func |-> obj.func]
    BY DEF EntrypointRow
<1> QED BY <1>1, FlushCurrentColumn DEF FlushedEntrypoint

LEMMA SameRows == \A T : Atomic!Kept(T) = Live(T)
BY DEF Atomic!Kept, Live

LEMMA SameGiven == \A new, old : Atomic!Or(new, old) = Given(new, old)
BY DEF Atomic!Or, Given

\* The instance has Cardinality under a name of its own.
LEMMA SameSize == \A S : Atomic!Cardinality(S) = Cardinality(S)
BY DEF Atomic!Cardinality, Cardinality

LEMMA PutIsAtomic ==
    ASSUME NEW g, NEW u, NEW b, NEW q, MadeFrom(q, b), q.user = u, q.obj \in GardenRow,
           NEW obj, obj = q.obj,
           \A h \in Live(gardens) : gardens[h].doi = b.doi => h = g,
           MembersExist(obj), gardens' = [gardens EXCEPT ![g] = obj],
           UNCHANGED <<entrypoints, modal_functions, saved>>
    PROVE  Atomic!PutGarden(g, b, u)
<1>1. obj.doi_is_draft \in BOOLEAN /\ b.doi_is_draft \in {obj.doi_is_draft, NULL}
    BY RowFields DEF MadeFrom
<1>2. obj.entrypoints \in Atomic!Members(b.entrypoint_ids)
    BY SameRows, SameSize DEF Atomic!Members, MadeFrom, MembersExist
<1>3. obj = [owner |-> Given(b.owner_identity_id, u), doi |-> b.doi,
             doi_is_draft |-> obj.doi_is_draft, is_archived |-> b.is_archived,
             entrypoints |-> obj.entrypoints, modal_functions |-> b.modal_function_ids]
    BY DEF MadeFrom
<1>4. b.modal_function_ids \subseteq modal_functions
    BY <1>3 DEF MembersExist
<1> QED BY <1>1, <1>2, <1>3, <1>4, SameRows, SameGiven
        DEF Atomic!PutGarden, Atomic!WriteGarden

LEMMA CreateIsAtomic ==
    ASSUME Inv, GardensFaithful, NEW r \in GardenReq, CommitCreate(r)
    PROVE  [Atomic!Next]_Atomic!rows
<1> DEFINE q == greq[r]
<1>1. q.pc = "commit" /\ q.op = "create" /\ q \in GardenRequest /\ Checked(q)
    BY Busy DEF Inv, CommitCreate, At
<1>2. UNCHANGED <<entrypoints, modal_functions, saved>>
    BY DEF CommitCreate
<1>3. CASE UNCHANGED gardens
    BY <1>2, <1>3 DEF Atomic!rows
<1>4. ASSUME InsertAllowed(q.obj), NEW g \in Fresh(gardens),
             gardens' = [gardens EXCEPT ![g] = q.obj]
      PROVE  Atomic!Next
    <2>1. PICK b \in GardenBodies : MadeFrom(q, b)
        BY <1>1 DEF GardensFaithful, Faithful
    <2>2. PICK n, u, obj : n = q /\ u = q.user /\ obj = q.obj
        OBVIOUS
    <2>3. g \in GardenId /\ gardens[g] = NULL /\ u \in User /\ n.obj \in GardenRow
        BY <1>1, <2>2 DEF Fresh, Inv, TablesTypeOK, GardenRequest, Checked
    <2>4. obj.doi = b.doi
        BY <2>1, <2>2 DEF MadeFrom
    <2>5. (\A h \in Live(gardens) : gardens[h].doi = b.doi => h = g) /\ MembersExist(obj)
        BY <1>4, <2>2, <2>4 DEF InsertAllowed, ByDoi
    <2>6. Atomic!PutGarden(g, b, u)
        BY <1>2, <1>4, <2>1, <2>2, <2>3, <2>5, PutIsAtomic
    <2> QED BY <2>3, <2>6 DEF Atomic!CreateGarden, Atomic!GardenRoute, Atomic!Next
<1> QED BY <1>3, <1>4 DEF CommitCreate

\* What a commit finds: the row it loaded, which others can not have changed.
LEMMA FindsLoaded ==
    ASSUME Inv, GardensCurrent, NEW r \in GardenReq, At(r, "commit"), greq[r].op # "create"
    PROVE  /\ greq[r] \in GardenRequest /\ Checked(greq[r])
           /\ greq[r].id \in GardenId /\ greq[r].id \in Live(gardens)
           /\ greq[r].loaded = gardens[greq[r].id] /\ greq[r].loaded \in GardenRow
           /\ greq[r].user \in User
BY Busy DEF Inv, At, GardensCurrent, Current, Checked, GardenRequest

LEMMA UpdateIsAtomic ==
    ASSUME Inv, GardensCurrent, GardensFaithful, NEW r \in GardenReq, CommitUpdate(r)
    PROVE  [Atomic!Next]_Atomic!rows
<1>1. PICK q : q = greq[r]
    OBVIOUS
<1>2. q.pc = "commit" /\ q.op \in {"replace", "patch"}
    BY <1>1 DEF CommitUpdate, At
<1>3. PICK g, u, obj, row : g = q.id /\ u = q.user /\ obj = q.obj /\ row = q.loaded
    OBVIOUS
<1>4. /\ q \in GardenRequest /\ Checked(q) /\ Faithful(q)
      /\ g \in GardenId /\ g \in Live(gardens) /\ row = gardens[g] /\ row \in GardenRow
      /\ u \in User /\ obj \in GardenRow
    BY <1>1, <1>2, <1>3, FindsLoaded DEF GardensFaithful, At, Checked
<1>5. UNCHANGED <<entrypoints, modal_functions, saved>>
    BY DEF CommitUpdate
<1>6. CASE UNCHANGED gardens
    BY <1>5, <1>6 DEF Atomic!rows
<1>7. ASSUME FlushAllowed(g, row, obj),
             gardens' = [gardens EXCEPT ![g] = FlushedGarden(gardens[g], row, obj)]
      PROVE  Atomic!Next
    <2>1. gardens' = [gardens EXCEPT ![g] = obj]
        BY <1>4, <1>7, FlushCurrentGarden
    <2>2. \A h \in Live(gardens) : gardens[h].doi = obj.doi => h = g
        BY <1>4, <1>7 DEF FlushAllowed, DoiFree, ByDoi, Inv, GardenTablesOK, GardenDoisUnique
    <2>3. row.entrypoints \subseteq Live(entrypoints) /\ row.modal_functions \subseteq modal_functions
        BY <1>4 DEF Inv, GardenTablesOK, GardenMembersExist
    <2>4. MembersExist(obj)
        BY <1>7, <2>3 DEF FlushAllowed, MembersExist
    <2>5. CASE q.op = "replace"
        <3>1. PICK b \in GardenBodies : MadeFrom(q, b)
            BY <1>2, <1>4, <2>5 DEF Faithful
        <3>2. obj.doi = b.doi
            BY <1>3, <3>1 DEF MadeFrom
        <3>3. Atomic!PutGarden(g, b, u)
            BY <1>3, <1>4, <1>5, <2>1, <2>2, <2>4, <3>1, <3>2, PutIsAtomic
        <3>4. Atomic!Mine(gardens[g], u)
            BY <1>2, <1>3, <1>4, <2>5 DEF Atomic!Mine, Checked, DeletableBy
        <3>5. Atomic!ReplaceGarden(g, u, b)
            BY <1>4, <3>3, <3>4, SameRows DEF Atomic!ReplaceGarden
        <3> QED BY <1>4, <3>5 DEF Atomic!GardenRoute, Atomic!Next
    <2>6. CASE q.op = "patch"
        <3>1. PICK p \in GardenPatches : p = q.body
            BY <1>2, <1>4, <2>6 DEF Faithful
        <3>2. PatchedBy(q, p) /\ EditableBy(row, p.is_archived, u)
            BY <1>2, <1>3, <1>4, <2>6, <3>1 DEF Faithful, Checked
        <3>3. obj = [owner |-> row.owner, doi |-> row.doi,
                     doi_is_draft |-> Given(p.doi_is_draft, row.doi_is_draft),
                     is_archived |-> Given(p.is_archived, row.is_archived),
                     entrypoints |-> obj.entrypoints,
                     modal_functions |-> row.modal_functions]
            BY <1>3, <3>2 DEF PatchedBy
        <3>4. ~(Given(p.is_archived, row.is_archived) /\ Given(p.doi_is_draft, row.doi_is_draft))
            <4>1. ~(obj.is_archived /\ obj.doi_is_draft)
                BY <1>3, <3>2 DEF PatchedBy, ArchivedDraft
            <4> QED BY <3>3, <4>1
        <3>5. obj.entrypoints \in IF p.entrypoint_ids = NULL THEN {row.entrypoints}
                                  ELSE Atomic!Members(p.entrypoint_ids)
            BY <1>3, <2>4, <3>2, SameRows, SameSize DEF PatchedBy, MembersExist, Atomic!Members
        <3>6. p.entrypoint_ids # NULL => row.doi_is_draft
            BY <1>3, <3>2 DEF PatchedBy
        <3>7. Atomic!Editable(row, p, u)
            BY <3>2 DEF EditableBy, Atomic!Editable
        <3>8. Atomic!WriteGarden(g,
                [owner |-> row.owner, doi |-> row.doi,
                 doi_is_draft |-> Given(p.doi_is_draft, row.doi_is_draft),
                 is_archived |-> Given(p.is_archived, row.is_archived),
                 entrypoints |-> obj.entrypoints, modal_functions |-> row.modal_functions])
            BY <1>5, <2>1, <3>3 DEF Atomic!WriteGarden
        <3>9. Atomic!PatchGarden(g, u, p)
            BY <1>4, <3>4, <3>5, <3>6, <3>7, <3>8, SameRows, SameGiven
               DEF Atomic!PatchGarden
        <3> QED BY <1>4, <3>9 DEF Atomic!GardenRoute, Atomic!Next
    <2> QED BY <1>2, <2>5, <2>6
<1> QED BY <1>1, <1>3, <1>6, <1>7 DEF CommitUpdate

LEMMA DeleteIsAtomic ==
    ASSUME Inv, GardensCurrent, NEW r \in GardenReq, CommitDelete(r)
    PROVE  [Atomic!Next]_Atomic!rows
<1>1. PICK q, g, u : q = greq[r] /\ g = q.id /\ u = q.user
    OBVIOUS
<1>2. q.pc = "commit" /\ q.op = "delete"
    BY <1>1 DEF CommitDelete, At
<1>3. /\ Checked(q) /\ g \in GardenId /\ g \in Live(gardens) /\ q.loaded = gardens[g]
      /\ u \in User
    BY <1>1, <1>2, FindsLoaded DEF At
<1>4. UNCHANGED <<entrypoints, modal_functions, saved>>
    BY DEF CommitDelete
<1>5. CASE UNCHANGED gardens
    BY <1>4, <1>5 DEF Atomic!rows
<1>6. ASSUME DeleteAllowed(q), gardens' = [gardens EXCEPT ![g] = GONE]
      PROVE  Atomic!Next
    <2>1. Atomic!Mine(gardens[g], u)
        BY <1>1, <1>2, <1>3 DEF Atomic!Mine, Checked, DeletableBy
    <2>2. Atomic!DeleteGarden(g, u)
        BY <1>1, <1>3, <1>4, <1>6, <2>1, SameRows
           DEF Atomic!DeleteGarden, Atomic!WriteGarden, DeleteAllowed
    <2> QED BY <1>3, <2>2 DEF Atomic!GardenRoute, Atomic!Next
<1> QED BY <1>1, <1>5, <1>6 DEF CommitDelete

LEMMA GardensAtomic ==
    ASSUME Inv, GardensCurrent, GardensFaithful, GardensNext
    PROVE  [Atomic!Next]_Atomic!rows
<1>1. PICK r \in GardenReq : GardenStep(r)
    BY DEF GardensNext
<1>2. CASE UNCHANGED tables
    BY <1>2 DEF tables, Atomic!rows
<1> QED BY <1>1, <1>2, CreateIsAtomic, UpdateIsAtomic, DeleteIsAtomic
        DEF GardenStep, AddGarden, ReplaceGarden, UpdateGarden, DeleteGarden,
            ResolveDraft, CollectMembers, ArchiveGarden, ReadOnly

LEMMA EPutIsAtomic ==
    ASSUME NEW e, NEW u, NEW b, NEW obj, obj = FromBody(b, Given(b.owner_identity_id, u)),
           \A f \in Live(entrypoints) :
                entrypoints[f].doi = obj.doi \/ entrypoints[f].func = obj.func => f = e,
           entrypoints' = [entrypoints EXCEPT ![e] = obj],
           UNCHANGED <<gardens, modal_functions, saved>>
    PROVE  Atomic!PutEntrypoint(e, b, u)
<1>1. obj.doi = b.doi /\ obj.func = b.func
    BY DEF FromBody
<1> QED BY <1>1, SameRows, SameGiven
        DEF FromBody, Atomic!PutEntrypoint, Atomic!WriteEntrypoint

LEMMA ECreateIsAtomic ==
    ASSUME Inv, EntrypointsFaithful, NEW r \in EntrypointReq, CommitNewEntrypoint(r)
    PROVE  [Atomic!Next]_Atomic!rows
<1>1. PICK q, u, obj : q = ereq[r] /\ u = q.user /\ obj = q.obj
    OBVIOUS
<1>2. /\ q.pc = "commit" /\ q.op = "create" /\ q \in EntrypointRequest /\ EFaithful(q)
      /\ u \in User
    BY <1>1, EBusy DEF Inv, CommitNewEntrypoint, EAt, EntrypointsFaithful, EntrypointRequest
<1>3. UNCHANGED <<gardens, modal_functions, saved>>
    BY DEF CommitNewEntrypoint
<1>4. CASE UNCHANGED entrypoints
    BY <1>3, <1>4 DEF Atomic!rows
<1>5. ASSUME ByDoi(entrypoints, obj.doi) = {}, ByFunc(obj.func) = {},
             NEW e \in Fresh(entrypoints), entrypoints' = [entrypoints EXCEPT ![e] = obj]
      PROVE  Atomic!Next
    <2>1. PICK b \in EntrypointBodies : obj = FromBody(b, Given(b.owner_identity_id, u))
        BY <1>1, <1>2 DEF EFaithful, EMadeFrom
    <2>2. e \in EntrypointId /\ entrypoints[e] = NULL
        BY DEF Fresh, Inv, TablesTypeOK
    <2>3. Atomic!PutEntrypoint(e, b, u)
        BY <1>3, <1>5, <2>1, EPutIsAtomic DEF ByDoi, ByFunc
    <2> QED BY <1>2, <2>2, <2>3
            DEF Atomic!CreateEntrypoint, Atomic!EntrypointRoute, Atomic!Next
<1> QED BY <1>1, <1>4, <1>5 DEF CommitNewEntrypoint

LEMMA EFindsLoaded ==
    ASSUME Inv, EntrypointsCurrent, NEW r \in EntrypointReq, EAt(r, "commit"),
           ereq[r].op # "create"
    PROVE  /\ ereq[r] \in EntrypointRequest /\ EChecked(ereq[r])
           /\ ereq[r].id \in EntrypointId /\ ereq[r].id \in Live(entrypoints)
           /\ ereq[r].loaded = entrypoints[ereq[r].id] /\ ereq[r].loaded \in EntrypointRow
           /\ ereq[r].user \in User
BY EBusy DEF Inv, EAt, EntrypointsCurrent, ECurrent, EChecked, EntrypointRequest

LEMMA EUpdateIsAtomic ==
    ASSUME Inv, EntrypointsCurrent, EntrypointsFaithful, NEW r \in EntrypointReq,
           CommitUpdatedEntrypoint(r)
    PROVE  [Atomic!Next]_Atomic!rows
<1>1. PICK q : q = ereq[r]
    OBVIOUS
<1>2. q.pc = "commit" /\ q.op \in {"replace", "patch"}
    BY <1>1 DEF CommitUpdatedEntrypoint, EAt
<1>3. PICK e, u, obj, row : e = q.id /\ u = q.user /\ obj = q.obj /\ row = q.loaded
    OBVIOUS
<1>4. /\ EChecked(q) /\ EFaithful(q) /\ e \in EntrypointId /\ e \in Live(entrypoints)
      /\ row = entrypoints[e] /\ row \in EntrypointRow /\ u \in User /\ obj \in EntrypointRow
    BY <1>1, <1>2, <1>3, EFindsLoaded DEF EntrypointsFaithful, EAt, EChecked
<1>5. UNCHANGED <<gardens, modal_functions, saved>>
    BY DEF CommitUpdatedEntrypoint
<1>6. CASE UNCHANGED entrypoints
    BY <1>5, <1>6 DEF Atomic!rows
<1>7. ASSUME KeysFree(e, row, obj),
             entrypoints' = [entrypoints EXCEPT ![e] =
                                FlushedEntrypoint(entrypoints[e], row, obj)]
      PROVE  Atomic!Next
    <2>1. entrypoints' = [entrypoints EXCEPT ![e] = obj]
        BY <1>4, <1>7, FlushCurrentEntrypoint
    <2>2. \A f \in Live(entrypoints) :
            entrypoints[f].doi = obj.doi \/ entrypoints[f].func = obj.func => f = e
        BY <1>4, <1>7 DEF KeysFree, ByDoi, ByFunc, Inv, EntrypointKeysUnique
    <2>3. CASE q.op = "replace"
        <3>1. PICK b \in EntrypointBodies : obj = FromBody(b, Given(b.owner_identity_id, u))
            BY <1>2, <1>3, <1>4, <2>3 DEF EFaithful, EMadeFrom
        <3>2. Atomic!PutEntrypoint(e, b, u)
            BY <1>5, <2>1, <2>2, <3>1, EPutIsAtomic
        <3>3. Atomic!Mine(entrypoints[e], u)
            BY <1>3, <1>4, <2>3 DEF Atomic!Mine, EChecked, DeletableBy
        <3>4. Atomic!ReplaceEntrypoint(e, u, b)
            BY <1>4, <3>2, <3>3, SameRows DEF Atomic!ReplaceEntrypoint
        <3> QED BY <1>4, <3>4 DEF Atomic!EntrypointRoute, Atomic!Next
    <2>4. CASE q.op = "patch"
        <3>1. PICK p \in EntrypointPatches : p = q.body
            BY <1>4, <2>4 DEF EChecked
        <3>2. EPatchedBy(q, p) /\ EditableBy(row, p.is_archived, u)
            BY <1>2, <1>3, <1>4, <2>4, <3>1 DEF EFaithful, EChecked
        <3>3. obj = [owner |-> row.owner, doi |-> row.doi,
                     doi_is_draft |-> Given(p.doi_is_draft, row.doi_is_draft),
                     is_archived |-> Given(p.is_archived, row.is_archived),
                     func |-> Given(p.func, row.func)]
            BY <1>3, <3>2 DEF EPatchedBy
        <3>4. /\ ~(obj.is_archived /\ obj.doi_is_draft)
              /\ obj.doi_is_draft \/ p.func = NULL
            BY <1>3, <3>2 DEF EPatchedBy, ArchivedDraft
        <3>5. /\ obj.is_archived = Given(p.is_archived, row.is_archived)
              /\ obj.doi_is_draft = Given(p.doi_is_draft, row.doi_is_draft)
              /\ obj.func = Given(p.func, row.func)
            BY <3>3
        <3>6. Atomic!Editable(row, p, u)
            BY <3>2 DEF EditableBy, Atomic!Editable
        <3>7. Atomic!WriteEntrypoint(e,
                [owner |-> row.owner, doi |-> row.doi,
                 doi_is_draft |-> Given(p.doi_is_draft, row.doi_is_draft),
                 is_archived |-> Given(p.is_archived, row.is_archived),
                 func |-> Given(p.func, row.func)])
            BY <1>5, <2>1, <3>3 DEF Atomic!WriteEntrypoint
        <3>8. Atomic!PatchEntrypoint(e, u, p)
            BY <1>4, <2>2, <3>4, <3>5, <3>6, <3>7, SameRows, SameGiven
               DEF Atomic!PatchEntrypoint
        <3> QED BY <1>4, <3>8 DEF Atomic!EntrypointRoute, Atomic!Next
    <2> QED BY <1>2, <2>3, <2>4
<1> QED BY <1>1, <1>3, <1>6, <1>7 DEF CommitUpdatedEntrypoint

LEMMA EDeleteIsAtomic ==
    ASSUME Inv, EntrypointsCurrent, NEW r \in EntrypointReq, CommitDeletedEntrypoint(r)
    PROVE  [Atomic!Next]_Atomic!rows
<1>1. PICK q, e, u : q = ereq[r] /\ e = q.id /\ u = q.user
    OBVIOUS
<1>2. q.pc = "commit" /\ q.op = "delete"
    BY <1>1 DEF CommitDeletedEntrypoint, EAt
<1>3. /\ EChecked(q) /\ e \in EntrypointId /\ e \in Live(entrypoints)
      /\ q.loaded = entrypoints[e] /\ u \in User
    BY <1>1, <1>2, EFindsLoaded DEF EAt
<1>4. UNCHANGED <<gardens, modal_functions, saved>>
    BY DEF CommitDeletedEntrypoint
<1>5. CASE UNCHANGED entrypoints
    BY <1>4, <1>5 DEF Atomic!rows
<1>6. ASSUME \A g \in Live(gardens) : e \notin gardens[g].entrypoints,
             entrypoints' = [entrypoints EXCEPT ![e] = GONE]
      PROVE  Atomic!Next
    <2>1. Atomic!Mine(entrypoints[e], u)
        BY <1>1, <1>2, <1>3 DEF Atomic!Mine, EChecked, DeletableBy
    <2>2. Atomic!DeleteEntrypoint(e, u)
        BY <1>3, <1>4, <1>6, <2>1, SameRows
           DEF Atomic!DeleteEntrypoint, Atomic!WriteEntrypoint
    <2> QED BY <1>3, <2>2 DEF Atomic!EntrypointRoute, Atomic!Next
<1> QED BY <1>1, <1>5, <1>6 DEF CommitDeletedEntrypoint

LEMMA EntrypointsAtomic ==
    ASSUME Inv, EntrypointsCurrent, EntrypointsFaithful, EntrypointsNext
    PROVE  [Atomic!Next]_Atomic!rows
<1>1. PICK r \in EntrypointReq : EntrypointStep(r)
    BY DEF EntrypointsNext
<1>2. CASE UNCHANGED tables
    BY <1>2 DEF tables, Atomic!rows
<1> QED BY <1>1, <1>2, ECreateIsAtomic, EUpdateIsAtomic, EDeleteIsAtomic
        DEF EntrypointStep, AddEntrypoint, ReplaceEntrypoint, UpdateEntrypoint,
            DeleteEntrypoint, Arrive, ArchiveEntrypoint

LEMMA SavedAtomic ==
    ASSUME Inv, SavedNext PROVE [Atomic!Next]_Atomic!rows
<1>1. PICK r \in SaveReq : SaveStep(r)
    BY DEF SavedNext
<1>2. CASE UNCHANGED tables
    BY <1>2 DEF tables, Atomic!rows
<1>3. PICK q, g, u : q = sreq[r] /\ g = q.id /\ u = q.user
    OBVIOUS
<1>4. q.pc = "commit" => g \in GardenId /\ u \in User
    BY <1>3 DEF Inv, SaveReqTypeOK, SIdle, SaveRequest
<1>5. CASE CommitSave(r)
    <2>1. q.pc = "commit" /\ UNCHANGED <<gardens, entrypoints, modal_functions>>
        BY <1>3, <1>5 DEF CommitSave
    <2>2. CASE g \in Live(gardens) /\ saved' = saved \cup {<<u, g>>}
        <3>1. Atomic!SaveGarden(g, u)
            BY <2>1, <2>2, SameRows DEF Atomic!SaveGarden, Atomic!ChangeSaved
        <3> QED BY <1>4, <2>1, <3>1 DEF Atomic!GardenRoute, Atomic!Next
    <2>3. CASE UNCHANGED saved
        BY <2>1, <2>3 DEF Atomic!rows
    <2> QED BY <1>3, <1>5, <2>2, <2>3 DEF CommitSave
<1>6. CASE CommitRemove(r)
    <2>1. Atomic!RemoveSaved(g, u)
        BY <1>3, <1>6 DEF CommitRemove, Atomic!RemoveSaved, Atomic!ChangeSaved
    <2> QED BY <1>3, <1>4, <1>6, <2>1 DEF CommitRemove, Atomic!GardenRoute, Atomic!Next
<1> QED BY <1>1, <1>2, <1>5, <1>6 DEF SaveStep, FindGarden, RefreshSaved

LEMMA StepsAtomic ==
    /\ Inv /\ GardensCurrent /\ GardensFaithful
    /\ EntrypointsCurrent /\ EntrypointsFaithful
    /\ [Next]_vars
    => [Atomic!Next]_Atomic!rows
<1> SUFFICES ASSUME Inv, GardensCurrent, GardensFaithful, EntrypointsCurrent,
                    EntrypointsFaithful, [Next]_vars
             PROVE  [Atomic!Next]_Atomic!rows
    OBVIOUS
<1>1. CASE UNCHANGED tables
    BY <1>1 DEF tables, Atomic!rows
<1>2. ASSUME NEW f \in modal_functions, DeleteModalFunction(f) PROVE Atomic!Next
    <2>1. Atomic!DeleteFunction(f)
        BY <1>2, SameRows DEF DeleteModalFunction, Atomic!DeleteFunction
    <2> QED BY <2>1 DEF Atomic!Next
<1> QED BY <1>1, <1>2, GardensAtomic, EntrypointsAtomic, SavedAtomic
        DEF Next, DoisNext, MintDraftDoi, UpdateDatacite, Restart, vars, tables

\* As long as no two requests in flight handle the same garden or the same
\* entrypoint, the routes implement AtomicCatalog: each request that is not
\* refused takes effect at once, on the rows as they are then. Requests on other
\* rows may overlap in any number, delete what a request has just looked up, and
\* be cut off by a restart.
THEOREM AtomicTheorem == Spec /\ []GardensApart /\ []EntrypointsApart => ActsAtomically
<1>1. Init => Atomic!Init
    BY DEF Init, TablesInit, Atomic!Init
<1> QED BY <1>1, StepsAtomic, InvAlways, FaithfulAlways, GardensCurrentAlways,
           EntrypointsCurrentAlways, PTL
        DEF Spec, ActsAtomically, Atomic!Spec
=============================================================================
