-------------------------- MODULE Entrypoints_proof --------------------------
(***************************************************************************)
(* Proofs about Entrypoints: what an entrypoint request in flight stands   *)
(* for, and that its steps keep the tables well formed.                    *)
(***************************************************************************)
EXTENDS Entrypoints, TLAPS

\* Every request past its checks carries the row that passed them.
EChecked(q) ==
    /\ q.op # "create" => q.id \in EntrypointId /\ q.loaded \in EntrypointRow
    /\ q.op # "delete" => q.obj \in EntrypointRow
    /\ q.op \in {"replace", "delete"} => DeletableBy(q.loaded, q.user)
    /\ q.op = "patch" =>
        /\ q.body \in EntrypointPatches
        /\ EditableBy(q.loaded, q.body.is_archived, q.user)
        /\ q.obj.owner = q.loaded.owner /\ q.obj.doi = q.loaded.doi
        /\ q.obj.func # q.loaded.func => q.obj.doi_is_draft
        /\ q.obj.func # q.loaded.func => q.body.func # NULL
        /\ q.obj.doi_is_draft => q.loaded.doi_is_draft \/ q.body.doi_is_draft = TRUE
        /\ q.obj.is_archived => q.body.is_archived = TRUE
    /\ q.pc = "hide" => q.op = "patch" /\ q.obj.is_archived

EntrypointReqOK ==
    ereq \in [EntrypointReq -> {q \in EntrypointRequest : EChecked(q)} \cup {EIdle}]

LEMMA EntrypointReqTyped == EntrypointReqOK => EntrypointReqTypeOK
BY DEF EntrypointReqOK, EntrypointReqTypeOK

LEMMA EntrypointReqInit == EntrypointsInit => EntrypointReqOK
BY DEF EntrypointsInit, EntrypointReqOK

\* A slot that is not idle holds a checked request.
LEMMA EBusy ==
    ASSUME EntrypointReqOK, NEW r \in EntrypointReq, ereq[r].pc # "idle"
    PROVE  ereq[r] \in EntrypointRequest /\ EChecked(ereq[r])
BY DEF EntrypointReqOK, EIdle

LEMMA EGotoKeeps ==
    ASSUME EntrypointReqOK, NEW r \in EntrypointReq,
           NEW q \in {p \in EntrypointRequest : EChecked(p)} \cup {EIdle}, EGoto(r, q)
    PROVE  EntrypointReqOK'
BY DEF EntrypointReqOK, EGoto, EChecked, EditableBy, DeletableBy

LEMMA EFinishKeeps ==
    ASSUME EntrypointReqOK, NEW r \in EntrypointReq, EFinish(r) PROVE EntrypointReqOK'
BY EGotoKeeps DEF EFinish

\* The keys a lookup by DOI returns hold rows.
LEMMA EByDoiRows ==
    ASSUME TablesTypeOK, NEW d \in Doi, NEW e \in ByDoi(entrypoints, d)
    PROVE  e \in EntrypointId /\ entrypoints[e] \in EntrypointRow
BY DEF TablesTypeOK, ByDoi, Live

LEMMA FromBodyRow ==
    ASSUME NEW b \in EntrypointBody, NEW old \in User
    PROVE  FromBody(b, Given(b.owner_identity_id, old)) \in EntrypointRow
<1>1. Given(b.owner_identity_id, old) \in User
    BY DEF EntrypointBody, Given
<1> QED BY <1>1 DEF EntrypointBody, EntrypointRow, FromBody

LEMMA EFlushedRow ==
    ASSUME NEW row \in EntrypointRow, NEW loaded \in EntrypointRow, NEW obj \in EntrypointRow
    PROVE  FlushedEntrypoint(row, loaded, obj) \in EntrypointRow
BY DEF EntrypointRow, FlushedEntrypoint, FlushColumn

-----------------------------------------------------------------------------
(* Arrivals *)

LEMMA ArriveKeeps ==
    ASSUME EntrypointReqOK, NEW r \in EntrypointReq, NEW u \in User,
           NEW op \in {"create", "replace", "patch", "delete"},
           NEW body \in EntrypointPatch \cup {NULL}, NEW id \in EntrypointId \cup {NULL},
           NEW loaded \in EntrypointRow \cup {NULL}, NEW obj \in EntrypointRow \cup {NULL},
           EChecked([pc |-> "commit", op |-> op, user |-> u, body |-> body, id |-> id,
                     loaded |-> loaded, obj |-> obj]),
           Arrive(r, op, u, body, id, loaded, obj)
    PROVE  EntrypointReqOK'
<1> DEFINE q == [pc |-> "commit", op |-> op, user |-> u, body |-> body, id |-> id,
                 loaded |-> loaded, obj |-> obj]
<1>1. q \in EntrypointRequest
    BY DEF EntrypointRequest
<1>2. EGoto(r, q) /\ EChecked(q)
    BY DEF Arrive
<1> HIDE DEF q
<1> QED BY <1>1, <1>2, EGotoKeeps

LEMMA EAddKeeps ==
    ASSUME EntrypointReqOK, NEW r \in EntrypointReq, NEW u \in User,
           NEW b \in EntrypointBodies, AddEntrypoint(r, u, b)
    PROVE  EntrypointReqOK'
<1> DEFINE obj == FromBody(b, Given(b.owner_identity_id, u))
<1>1. obj \in EntrypointRow
    BY FromBodyRow, EntrypointPayloadAssumption
<1>2. Arrive(r, "create", u, NULL, NULL, NULL, obj)
    BY DEF AddEntrypoint
<1> HIDE DEF obj
<1>3. EChecked([pc |-> "commit", op |-> "create", user |-> u, body |-> NULL, id |-> NULL,
                loaded |-> NULL, obj |-> obj])
    BY <1>1 DEF EChecked
<1> QED BY <1>1, <1>2, <1>3, ArriveKeeps

LEMMA EReplaceKeeps ==
    ASSUME TablesTypeOK, EntrypointReqOK, NEW r \in EntrypointReq, NEW u \in User,
           NEW d \in Doi, NEW b \in EntrypointBodies, ReplaceEntrypoint(r, u, d, b)
    PROVE  EntrypointReqOK'
<1>1. CASE AddEntrypoint(r, u, b)
    BY <1>1, EAddKeeps
<1>2. ASSUME NEW e \in ByDoi(entrypoints, d), DeletableBy(entrypoints[e], u),
             Arrive(r, "replace", u, NULL, e, entrypoints[e],
                    FromBody(b, Given(b.owner_identity_id, entrypoints[e].owner)))
      PROVE  EntrypointReqOK'
    <2> DEFINE row == entrypoints[e]
               obj == FromBody(b, Given(b.owner_identity_id, row.owner))
    <2>1. e \in EntrypointId /\ row \in EntrypointRow /\ row.owner \in User
        BY EByDoiRows DEF EntrypointRow
    <2>2. obj \in EntrypointRow
        BY <2>1, FromBodyRow, EntrypointPayloadAssumption
    <2>3. Arrive(r, "replace", u, NULL, e, row, obj) /\ DeletableBy(row, u)
        BY <1>2
    <2> HIDE DEF row, obj
    <2>4. EChecked([pc |-> "commit", op |-> "replace", user |-> u, body |-> NULL, id |-> e,
                    loaded |-> row, obj |-> obj])
        BY <2>1, <2>2, <2>3 DEF EChecked
    <2> QED BY <2>1, <2>2, <2>3, <2>4, ArriveKeeps
<1> QED BY <1>1, <1>2 DEF ReplaceEntrypoint

LEMMA EPatchKeeps ==
    ASSUME TablesTypeOK, EntrypointReqOK, NEW r \in EntrypointReq, NEW u \in User,
           NEW d \in Doi, NEW p \in EntrypointPatches, UpdateEntrypoint(r, u, d, p)
    PROVE  EntrypointReqOK'
<1>1. PICK e \in ByDoi(entrypoints, d) :
        LET row == entrypoints[e]
            obj == [row EXCEPT !.doi_is_draft = Given(p.doi_is_draft, @),
                               !.is_archived = Given(p.is_archived, @),
                               !.func = Given(p.func, @)]
        IN  /\ EditableBy(row, p.is_archived, u)
            /\ ~obj.doi_is_draft => p.func = NULL
            /\ Arrive(r, "patch", u, p, e, row, obj)
    BY DEF UpdateEntrypoint
<1> DEFINE row == entrypoints[e]
           obj == [row EXCEPT !.doi_is_draft = Given(p.doi_is_draft, @),
                              !.is_archived = Given(p.is_archived, @),
                              !.func = Given(p.func, @)]
<1>2. p \in EntrypointPatch /\ e \in EntrypointId /\ row \in EntrypointRow
    BY EByDoiRows, EntrypointPayloadAssumption
<1>3. /\ obj \in EntrypointRow /\ obj.owner = row.owner /\ obj.doi = row.doi
      /\ p.func = NULL => obj.func = row.func
      /\ obj.doi_is_draft => (p.doi_is_draft = TRUE) \/ row.doi_is_draft
      /\ obj.is_archived => (p.is_archived = TRUE) \/ (row.is_archived /\ p.is_archived = NULL)
    BY <1>2 DEF EntrypointRow, EntrypointPatch, Given
<1>4. /\ EditableBy(row, p.is_archived, u)
      /\ ~obj.doi_is_draft => p.func = NULL
      /\ Arrive(r, "patch", u, p, e, row, obj)
    BY <1>1
<1> HIDE DEF row, obj
<1>5. EChecked([pc |-> "commit", op |-> "patch", user |-> u, body |-> p, id |-> e,
                loaded |-> row, obj |-> obj])
    BY <1>2, <1>3, <1>4, NoRowAssumption DEF EChecked, EditableBy
<1> QED BY <1>2, <1>3, <1>4, <1>5, ArriveKeeps

LEMMA EDeleteKeeps ==
    ASSUME TablesTypeOK, EntrypointReqOK, NEW r \in EntrypointReq, NEW u \in User,
           NEW d \in Doi, DeleteEntrypoint(r, u, d)
    PROVE  EntrypointReqOK'
<1>1. PICK e \in ByDoi(entrypoints, d) :
        /\ DeletableBy(entrypoints[e], u)
        /\ Arrive(r, "delete", u, NULL, e, entrypoints[e], NULL)
    BY DEF DeleteEntrypoint
<1>2. e \in EntrypointId /\ entrypoints[e] \in EntrypointRow
    BY EByDoiRows
<1>3. EChecked([pc |-> "commit", op |-> "delete", user |-> u, body |-> NULL, id |-> e,
                loaded |-> entrypoints[e], obj |-> NULL])
    BY <1>1, <1>2 DEF EChecked
<1> QED BY <1>1, <1>2, <1>3, ArriveKeeps

-----------------------------------------------------------------------------
(* Commits *)

\* The part of Catalog's UniqueKeys entrypoint rows make up.
EntrypointKeysUnique ==
    \A e, f \in Live(entrypoints) :
        \/ e = f
        \/ /\ entrypoints[e].doi # entrypoints[f].doi
           /\ entrypoints[e].func # entrypoints[f].func

\* What an entrypoint commit owes the gardens: what they list stays.
MembersStay ==
    \A g \in Live(gardens) :
        gardens[g].entrypoints \subseteq Live(entrypoints)
            => gardens[g].entrypoints \subseteq Live(entrypoints')

EntrypointTable == [EntrypointId -> EntrypointRow \cup {NULL, GONE}]

LEMMA LiveEntrypoints ==
    ASSUME NEW T \in EntrypointTable
    PROVE  Live(T) = {e \in EntrypointId : T[e] \in EntrypointRow}
BY NoRowAssumption DEF Live, EntrypointTable

\* A commit that writes a row under keys no other row has.
LEMMA EWriteKeeps ==
    ASSUME TablesTypeOK, EntrypointKeysUnique, NEW e \in EntrypointId,
           NEW row \in EntrypointRow, entrypoints' = [entrypoints EXCEPT ![e] = row],
           UNCHANGED <<gardens, modal_functions, saved, datacite>>,
           ByDoi(entrypoints, row.doi) \subseteq {e}, ByFunc(row.func) \subseteq {e}
    PROVE  TablesTypeOK' /\ EntrypointKeysUnique' /\ MembersStay
<1>1. entrypoints \in EntrypointTable
    BY DEF TablesTypeOK, EntrypointTable
<1>2. /\ entrypoints' \in EntrypointTable
      /\ entrypoints'[e] = row /\ \A f \in EntrypointId \ {e} : entrypoints'[f] = entrypoints[f]
    BY <1>1 DEF EntrypointTable
<1>3. /\ Live(entrypoints') = Live(entrypoints) \cup {e}
      /\ Live(entrypoints) \subseteq EntrypointId
    BY <1>1, <1>2, LiveEntrypoints
<1>4. TablesTypeOK'
    BY <1>2 DEF TablesTypeOK, EntrypointTable
<1>5. EntrypointKeysUnique'
    <2> SUFFICES ASSUME NEW f \in Live(entrypoints'), NEW k \in Live(entrypoints'), f # k
                 PROVE  /\ entrypoints'[f].doi # entrypoints'[k].doi
                        /\ entrypoints'[f].func # entrypoints'[k].func
        BY DEF EntrypointKeysUnique, Live
    <2>1. \A j \in Live(entrypoints) :
            (entrypoints[j].doi = row.doi \/ entrypoints[j].func = row.func) => j = e
        BY DEF ByDoi, ByFunc
    <2> QED BY <1>2, <1>3, <2>1 DEF EntrypointKeysUnique
<1>6. MembersStay
    BY <1>3 DEF MembersStay
<1> QED BY <1>4, <1>5, <1>6

LEMMA EUnchangedTablesKeep ==
    TablesTypeOK /\ EntrypointKeysUnique /\ UNCHANGED <<tables, datacite>>
        => TablesTypeOK' /\ EntrypointKeysUnique' /\ MembersStay
BY DEF TablesTypeOK, EntrypointKeysUnique, MembersStay, tables, Live

LEMMA ECommitNewKeeps ==
    ASSUME TablesTypeOK, EntrypointKeysUnique, EntrypointReqOK, NEW r \in EntrypointReq,
           CommitNewEntrypoint(r)
    PROVE  TablesTypeOK' /\ EntrypointKeysUnique' /\ MembersStay /\ EntrypointReqOK'
<1> DEFINE obj == ereq[r].obj
<1>1. EntrypointReqOK'
    BY EFinishKeeps DEF CommitNewEntrypoint
<1>2. obj \in EntrypointRow
    BY EBusy DEF CommitNewEntrypoint, EAt, EChecked
<1>3. UNCHANGED <<gardens, modal_functions, saved, datacite>>
    BY DEF CommitNewEntrypoint
<1>4. CASE UNCHANGED entrypoints
    BY <1>1, <1>3, <1>4, EUnchangedTablesKeep DEF tables
<1>5. ASSUME ByDoi(entrypoints, obj.doi) = {}, ByFunc(obj.func) = {},
             NEW e \in Fresh(entrypoints), entrypoints' = [entrypoints EXCEPT ![e] = obj]
      PROVE  TablesTypeOK' /\ EntrypointKeysUnique' /\ MembersStay
    <2>1. e \in EntrypointId
        BY DEF Fresh, TablesTypeOK
    <2> HIDE DEF obj
    <2> QED BY <1>2, <1>3, <1>5, <2>1, EWriteKeeps
<1> QED BY <1>1, <1>4, <1>5 DEF CommitNewEntrypoint

LEMMA ECommitUpdatedKeeps ==
    ASSUME TablesTypeOK, EntrypointKeysUnique, EntrypointReqOK, NEW r \in EntrypointReq,
           CommitUpdatedEntrypoint(r)
    PROVE  TablesTypeOK' /\ EntrypointKeysUnique' /\ MembersStay /\ EntrypointReqOK'
<1> DEFINE q == ereq[r]
           hiding == [q EXCEPT !.pc = "hide"]
           row == FlushedEntrypoint(entrypoints[q.id], q.loaded, q.obj)
<1>1. /\ q \in EntrypointRequest /\ EChecked(q)
      /\ q.op \in {"replace", "patch"}
    BY EBusy DEF CommitUpdatedEntrypoint, EAt
<1>2. q.id \in EntrypointId /\ q.loaded \in EntrypointRow /\ q.obj \in EntrypointRow
    BY <1>1 DEF EChecked
<1>3. UNCHANGED <<gardens, modal_functions, saved, datacite>>
    BY DEF CommitUpdatedEntrypoint
<1>4. \/ EGoto(r, hiding) /\ q.op = "patch" /\ q.obj.is_archived
      \/ EGoto(r, EIdle)
    BY DEF CommitUpdatedEntrypoint, EFinish
<1>5. EntrypointReqOK'
    <2>1. CASE EGoto(r, hiding) /\ q.op = "patch" /\ q.obj.is_archived
        <3>1. hiding = [pc |-> "hide", op |-> q.op, user |-> q.user, body |-> q.body,
                        id |-> q.id, loaded |-> q.loaded, obj |-> q.obj]
            BY <1>1 DEF EntrypointRequest
        <3> HIDE DEF q, hiding
        <3>2. hiding \in EntrypointRequest /\ EChecked(hiding)
            BY <1>1, <2>1, <3>1 DEF EntrypointRequest, EChecked
        <3> QED BY <2>1, <3>2, EGotoKeeps
    <2> QED BY <1>4, <2>1, EGotoKeeps
<1>6. CASE UNCHANGED entrypoints
    BY <1>3, <1>5, <1>6, EUnchangedTablesKeep DEF tables
<1>7. ASSUME q.id \in Live(entrypoints), KeysFree(q.id, q.loaded, q.obj),
             entrypoints' = [entrypoints EXCEPT ![q.id] = row]
      PROVE  TablesTypeOK' /\ EntrypointKeysUnique' /\ MembersStay
    <2> DEFINE old == entrypoints[q.id]
    <2>1. entrypoints \in EntrypointTable
        BY DEF TablesTypeOK, EntrypointTable
    <2>2. old \in EntrypointRow
        BY <1>7, <2>1, LiveEntrypoints
    <2>3. row \in EntrypointRow
        BY <1>2, <2>2, EFlushedRow
    <2>4. /\ row.func = FlushColumn(old.func, q.loaded.func, q.obj.func)
          /\ row.doi = FlushColumn(old.doi, q.loaded.doi, q.obj.doi)
        BY DEF FlushedEntrypoint
    <2>5. \A j \in Live(entrypoints) :
            (entrypoints[j].doi = old.doi \/ entrypoints[j].func = old.func) => j = q.id
        BY <1>7 DEF EntrypointKeysUnique
    <2> HIDE DEF q, row, old
    <2>6. ByDoi(entrypoints, row.doi) \subseteq {q.id} /\ ByFunc(row.func) \subseteq {q.id}
        BY <1>7, <2>4, <2>5 DEF FlushColumn, KeysFree, ByDoi, ByFunc
    <2> QED BY <1>2, <1>3, <1>7, <2>3, <2>6, EWriteKeeps
<1> QED BY <1>5, <1>6, <1>7 DEF CommitUpdatedEntrypoint

LEMMA ECommitDeletedKeeps ==
    ASSUME TablesTypeOK, EntrypointKeysUnique, EntrypointReqOK, NEW r \in EntrypointReq,
           CommitDeletedEntrypoint(r)
    PROVE  TablesTypeOK' /\ EntrypointKeysUnique' /\ MembersStay /\ EntrypointReqOK'
<1> DEFINE q == ereq[r]
<1>1. q.id \in EntrypointId
    BY EBusy DEF CommitDeletedEntrypoint, EAt, EChecked
<1>2. EntrypointReqOK'
    BY EFinishKeeps DEF CommitDeletedEntrypoint
<1>3. UNCHANGED <<gardens, modal_functions, saved, datacite>>
    BY DEF CommitDeletedEntrypoint
<1>4. CASE UNCHANGED entrypoints
    BY <1>2, <1>3, <1>4, EUnchangedTablesKeep DEF tables
<1>5. ASSUME \A g \in Live(gardens) : q.id \notin gardens[g].entrypoints,
             entrypoints' = [entrypoints EXCEPT ![q.id] = GONE]
      PROVE  TablesTypeOK' /\ EntrypointKeysUnique' /\ MembersStay
    <2>1. entrypoints \in EntrypointTable
        BY DEF TablesTypeOK, EntrypointTable
    <2>2. /\ entrypoints' \in EntrypointTable /\ entrypoints'[q.id] = GONE
          /\ \A f \in EntrypointId \ {q.id} : entrypoints'[f] = entrypoints[f]
        BY <1>1, <1>5, <2>1 DEF EntrypointTable
    <2>3. /\ Live(entrypoints') = Live(entrypoints) \ {q.id}
          /\ Live(entrypoints) \subseteq EntrypointId
        BY <1>1, <2>1, <2>2, LiveEntrypoints, NoRowAssumption
    <2>4. TablesTypeOK'
        BY <1>3, <2>2 DEF TablesTypeOK, EntrypointTable
    <2>5. EntrypointKeysUnique'
        BY <2>2, <2>3 DEF EntrypointKeysUnique, Live
    <2>6. MembersStay
        BY <1>5, <2>3 DEF MembersStay
    <2> QED BY <2>4, <2>5, <2>6
<1> QED BY <1>2, <1>4, <1>5 DEF CommitDeletedEntrypoint

LEMMA EArchiveKeeps ==
    ASSUME TablesTypeOK, EntrypointKeysUnique, EntrypointReqOK, NEW r \in EntrypointReq,
           ArchiveEntrypoint(r)
    PROVE  TablesTypeOK' /\ EntrypointKeysUnique' /\ MembersStay /\ EntrypointReqOK'
<1>1. EntrypointReqOK'
    BY EFinishKeeps DEF ArchiveEntrypoint
<1>2. UNCHANGED tables /\ datacite' \in [Doi -> DoiState]
    BY DEF ArchiveEntrypoint, HideOnDatacite, TablesTypeOK, DoiState
<1>3. TablesTypeOK'
    BY <1>2 DEF TablesTypeOK, tables
<1>4. EntrypointKeysUnique' /\ MembersStay
    BY <1>2 DEF tables, EntrypointKeysUnique, MembersStay, Live
<1> QED BY <1>1, <1>3, <1>4

-----------------------------------------------------------------------------
\* No step of an entrypoint request breaks what requests and tables rely on.
LEMMA EntrypointStepKeeps ==
    ASSUME TablesTypeOK, EntrypointKeysUnique, EntrypointReqOK, NEW r \in EntrypointReq,
           EntrypointStep(r)
    PROVE  TablesTypeOK' /\ EntrypointKeysUnique' /\ MembersStay /\ EntrypointReqOK'
<1>1. ASSUME NEW u \in User, NEW b \in EntrypointBodies, AddEntrypoint(r, u, b)
      PROVE  EntrypointReqOK' /\ UNCHANGED <<tables, datacite>>
    BY <1>1, EAddKeeps DEF AddEntrypoint, Arrive
<1>2. ASSUME NEW u \in User, NEW d \in Doi, NEW b \in EntrypointBodies,
             ReplaceEntrypoint(r, u, d, b)
      PROVE  EntrypointReqOK' /\ UNCHANGED <<tables, datacite>>
    BY <1>2, EReplaceKeeps DEF ReplaceEntrypoint, AddEntrypoint, Arrive
<1>3. ASSUME NEW u \in User, NEW d \in Doi, NEW p \in EntrypointPatches,
             UpdateEntrypoint(r, u, d, p)
      PROVE  EntrypointReqOK' /\ UNCHANGED <<tables, datacite>>
    BY <1>3, EPatchKeeps DEF UpdateEntrypoint, Arrive
<1>4. ASSUME NEW u \in User, NEW d \in Doi, DeleteEntrypoint(r, u, d)
      PROVE  EntrypointReqOK' /\ UNCHANGED <<tables, datacite>>
    BY <1>4, EDeleteKeeps DEF DeleteEntrypoint, Arrive
<1>5. CASE \/ CommitNewEntrypoint(r) \/ CommitUpdatedEntrypoint(r)
           \/ CommitDeletedEntrypoint(r) \/ ArchiveEntrypoint(r)
    BY <1>5, ECommitNewKeeps, ECommitUpdatedKeeps, ECommitDeletedKeeps, EArchiveKeeps
<1> QED BY <1>1, <1>2, <1>3, <1>4, <1>5, EUnchangedTablesKeep DEF EntrypointStep
-----------------------------------------------------------------------------
(* Entrypoint requests that keep apart: no two handle the same entrypoint *)

EHandling(r, e) == ereq[r] # EIdle /\ ereq[r].op # "create" /\ ereq[r].id = e

EntrypointsApart ==
    \A e \in EntrypointId :
        \A r, s \in EntrypointReq : EHandling(r, e) /\ EHandling(s, e) => r = s

\* What a request loaded is still there when it commits.
ECurrent(q) ==
    q.pc = "commit" /\ q.op # "create" =>
        q.id \in Live(entrypoints) /\ q.loaded = entrypoints[q.id]

EntrypointsCurrent == \A r \in EntrypointReq : ECurrent(ereq[r])

LEMMA ECurrentInit == EntrypointsInit => EntrypointsCurrent
BY DEF EntrypointsInit, EntrypointsCurrent, ECurrent, EIdle

LEMMA EGotoCurrent ==
    ASSUME EntrypointReqOK, EntrypointsCurrent, NEW r \in EntrypointReq,
           NEW q, ECurrent(q), EGoto(r, q), UNCHANGED entrypoints
    PROVE  EntrypointsCurrent'
<1>1. \A s \in EntrypointReq : ereq'[s] = IF s = r THEN q ELSE ereq[s]
    BY DEF EntrypointReqOK, EGoto
<1>2. \A p : ECurrent(p)' <=> ECurrent(p)
    BY DEF ECurrent, Live
<1> QED BY <1>1, <1>2 DEF EntrypointsCurrent

LEMMA EIdleCurrent == ECurrent(EIdle)
BY DEF ECurrent, EIdle

\* A request leaves its load with the row it found, or with none to create one.
LEMMA ArriveCurrent ==
    ASSUME EntrypointReqOK, EntrypointsCurrent, NEW r \in EntrypointReq,
           NEW op, NEW u, NEW body, NEW id, NEW loaded, NEW obj,
           op # "create" => id \in Live(entrypoints) /\ loaded = entrypoints[id],
           Arrive(r, op, u, body, id, loaded, obj)
    PROVE  EntrypointsCurrent'
<1> DEFINE q == [pc |-> "commit", op |-> op, user |-> u, body |-> body, id |-> id,
                 loaded |-> loaded, obj |-> obj]
<1>1. ECurrent(q)
    BY DEF ECurrent
<1>2. EGoto(r, q) /\ UNCHANGED entrypoints
    BY DEF Arrive, tables
<1> HIDE DEF q
<1> QED BY <1>1, <1>2, EGotoCurrent

LEMMA EArrivalsCurrent ==
    ASSUME EntrypointReqOK, EntrypointsCurrent, NEW r \in EntrypointReq,
           \/ \E u \in User, b \in EntrypointBodies : AddEntrypoint(r, u, b)
           \/ \E u \in User, d \in Doi, b \in EntrypointBodies : ReplaceEntrypoint(r, u, d, b)
           \/ \E u \in User, d \in Doi, p \in EntrypointPatches : UpdateEntrypoint(r, u, d, p)
           \/ \E u \in User, d \in Doi : DeleteEntrypoint(r, u, d)
    PROVE  EntrypointsCurrent'
<1>1. ASSUME NEW u \in User, NEW b \in EntrypointBodies, AddEntrypoint(r, u, b)
      PROVE  EntrypointsCurrent'
    <2>1. PICK obj : Arrive(r, "create", u, NULL, NULL, NULL, obj)
        BY <1>1 DEF AddEntrypoint
    <2> QED BY <2>1, ArriveCurrent
<1>2. ASSUME NEW u, NEW d, NEW op, NEW e \in ByDoi(entrypoints, d), NEW body, NEW obj,
             Arrive(r, op, u, body, e, entrypoints[e], obj)
      PROVE  EntrypointsCurrent'
    <2>1. PICK loaded : loaded = entrypoints[e]
        OBVIOUS
    <2>2. e \in Live(entrypoints) /\ Arrive(r, op, u, body, e, loaded, obj)
        BY <1>2, <2>1 DEF ByDoi
    <2> QED BY <2>1, <2>2, ArriveCurrent
<1>3. ASSUME NEW u \in User, NEW d \in Doi, NEW b \in EntrypointBodies,
             ReplaceEntrypoint(r, u, d, b)
      PROVE  EntrypointsCurrent'
    BY <1>1, <1>2, <1>3 DEF ReplaceEntrypoint
<1>4. ASSUME NEW u \in User, NEW d \in Doi, NEW p \in EntrypointPatches,
             UpdateEntrypoint(r, u, d, p)
      PROVE  EntrypointsCurrent'
    <2>1. PICK e \in ByDoi(entrypoints, d) :
            \E obj : Arrive(r, "patch", u, p, e, entrypoints[e], obj)
        BY <1>4 DEF UpdateEntrypoint
    <2> QED BY <1>2, <2>1
<1>5. ASSUME NEW u \in User, NEW d \in Doi, DeleteEntrypoint(r, u, d)
      PROVE  EntrypointsCurrent'
    BY <1>2, <1>5 DEF DeleteEntrypoint
<1> QED BY <1>1, <1>3, <1>4, <1>5

\* A commit changes the row of its own entrypoint only.
LEMMA ECommitLeavesOthers ==
    ASSUME TablesTypeOK, EntrypointReqOK, EntrypointsCurrent, NEW r \in EntrypointReq,
           NEW q, EGoto(r, q), NEW e \in EntrypointId, NEW row,
           \A s \in EntrypointReq \ {r} : ereq[s].pc = "commit" => ~EHandling(s, e),
           entrypoints' = [entrypoints EXCEPT ![e] = row],
           ECurrent(q)'
    PROVE  EntrypointsCurrent'
<1>1. entrypoints \in [EntrypointId -> EntrypointRow \cup {NULL, GONE}]
    BY DEF TablesTypeOK
<1>2. /\ DOMAIN entrypoints' = DOMAIN entrypoints
      /\ \A h \in EntrypointId \ {e} : entrypoints'[h] = entrypoints[h]
    BY <1>1
<1>3. ASSUME NEW s \in EntrypointReq \ {r} PROVE ECurrent(ereq[s])'
    <2> DEFINE p == ereq[s]
    <2>1. ereq'[s] = p
        BY DEF EntrypointReqOK, EGoto
    <2>2. CASE p = EIdle
        BY <2>1, <2>2 DEF ECurrent, EIdle
    <2>3. CASE p # EIdle
        <3>1. p \in EntrypointRequest /\ EChecked(p) /\ ECurrent(p)
            BY <2>3 DEF EntrypointReqOK, EntrypointsCurrent
        <3>2. CASE p.op = "create"
            BY <2>1, <3>1, <3>2 DEF ECurrent
        <3>3. CASE p.pc # "commit"
            BY <2>1, <3>3 DEF ECurrent
        <3>4. CASE p.op # "create" /\ p.pc = "commit"
            <4>1. p.id \in EntrypointId /\ p.id # e
                BY <2>3, <3>1, <3>4 DEF EChecked, EHandling
            <4>2. p.id \in Live(entrypoints) => p.id \in Live(entrypoints')
                BY <1>2, <4>1 DEF Live
            <4> QED BY <1>2, <2>1, <3>1, <4>1, <4>2 DEF ECurrent
        <3> QED BY <3>2, <3>3, <3>4
    <2> QED BY <2>2, <2>3
<1>4. ereq'[r] = q
    BY DEF EntrypointReqOK, EGoto
<1>5. ECurrent(ereq[r])'
    BY <1>4 DEF ECurrent
<1> QED BY <1>3, <1>5 DEF EntrypointsCurrent
LEMMA ECommitsCurrent ==
    ASSUME TablesTypeOK, EntrypointReqOK, EntrypointsCurrent, EntrypointsApart,
           NEW r \in EntrypointReq,
           \/ CommitNewEntrypoint(r) \/ CommitUpdatedEntrypoint(r)
           \/ CommitDeletedEntrypoint(r)
    PROVE  EntrypointsCurrent'
<1> DEFINE q == ereq[r]
           hiding == [q EXCEPT !.pc = "hide"]
<1>1. q \in EntrypointRequest /\ EChecked(q) /\ q # EIdle /\ q.pc = "commit"
    BY EBusy DEF CommitNewEntrypoint, CommitUpdatedEntrypoint, CommitDeletedEntrypoint,
                 EAt, EIdle
<1>2. PICK n : EGoto(r, n) /\ n.pc \in {"idle", "hide"}
    <2>1. hiding.pc = "hide"
        BY <1>1 DEF EntrypointRequest
    <2>2. EGoto(r, hiding) \/ EGoto(r, EIdle)
        BY DEF CommitNewEntrypoint, CommitUpdatedEntrypoint, CommitDeletedEntrypoint, EFinish
    <2>3. EIdle.pc = "idle"
        BY DEF EIdle
    <2>4. PICK n : EGoto(r, n) /\ (n = hiding \/ n = EIdle)
        BY <2>2
    <2> HIDE DEF hiding
    <2> QED BY <2>1, <2>3, <2>4
<1>3. ECurrent(n) /\ ECurrent(n)'
    BY <1>2 DEF ECurrent
<1>4. CASE UNCHANGED entrypoints
    BY <1>2, <1>3, <1>4, EGotoCurrent
<1>5. ASSUME NEW e \in EntrypointId, NEW row, entrypoints' = [entrypoints EXCEPT ![e] = row],
             \A s \in EntrypointReq \ {r} : ereq[s].pc = "commit" => ~EHandling(s, e)
      PROVE  EntrypointsCurrent'
    BY <1>2, <1>3, <1>5, ECommitLeavesOthers
<1>6. CASE CommitNewEntrypoint(r)
    <2>1. ASSUME NEW e \in Fresh(entrypoints), entrypoints' = [entrypoints EXCEPT ![e] = q.obj]
          PROVE  EntrypointsCurrent'
        <3>1. e \in EntrypointId /\ e \notin Live(entrypoints)
            BY DEF Fresh, Live, TablesTypeOK
        <3>2. \A s \in EntrypointReq : ereq[s].pc = "commit" => ~EHandling(s, e)
            BY <3>1 DEF EHandling, EntrypointsCurrent, ECurrent
        <3>3. PICK row : row = q.obj
            OBVIOUS
        <3> QED BY <1>5, <2>1, <3>1, <3>2, <3>3
    <2> QED BY <1>4, <1>6, <2>1 DEF CommitNewEntrypoint
<1>7. CASE CommitUpdatedEntrypoint(r) \/ CommitDeletedEntrypoint(r)
    <2>1. q.op # "create" /\ q.id \in EntrypointId
        BY <1>1, <1>7 DEF CommitUpdatedEntrypoint, CommitDeletedEntrypoint, EChecked
    <2>2. \A s \in EntrypointReq \ {r} : ~EHandling(s, q.id)
        BY <1>1, <2>1 DEF EHandling, EntrypointsApart
    <2>3. UNCHANGED entrypoints \/ \E row : entrypoints' = [entrypoints EXCEPT ![q.id] = row]
        BY <1>7 DEF CommitUpdatedEntrypoint, CommitDeletedEntrypoint
    <2>4. PICK k : k = q.id
        OBVIOUS
    <2> QED BY <1>4, <1>5, <2>1, <2>2, <2>3, <2>4
<1> QED BY <1>6, <1>7

\* While entrypoint requests keep apart, each finds at its commit the row it loaded.
LEMMA EntrypointStepCurrent ==
    ASSUME TablesTypeOK, EntrypointReqOK, EntrypointsCurrent, EntrypointsApart,
           NEW r \in EntrypointReq, EntrypointStep(r)
    PROVE  EntrypointsCurrent'
<1>1. CASE ArchiveEntrypoint(r)
    BY <1>1, EIdleCurrent, EGotoCurrent DEF ArchiveEntrypoint, EFinish, tables
<1> QED BY <1>1, EArrivalsCurrent, ECommitsCurrent DEF EntrypointStep

-----------------------------------------------------------------------------
(* What a request makes of its payload *)

EMadeFrom(q, b) == q.obj = FromBody(b, Given(b.owner_identity_id, q.user))

\* The object of a PATCH with payload p.
EPatchedBy(q, p) ==
    /\ q.obj = [owner |-> q.loaded.owner, doi |-> q.loaded.doi,
                doi_is_draft |-> Given(p.doi_is_draft, q.loaded.doi_is_draft),
                is_archived |-> Given(p.is_archived, q.loaded.is_archived),
                func |-> Given(p.func, q.loaded.func)]
    /\ ~ArchivedDraft(q.obj)
    /\ q.obj.doi_is_draft \/ p.func = NULL

EFaithful(q) ==
    q.pc = "commit" =>
        /\ q.op \in {"create", "replace"} => \E b \in EntrypointBodies : EMadeFrom(q, b)
        /\ q.op = "patch" => EPatchedBy(q, q.body)

EntrypointsFaithful == \A r \in EntrypointReq : EFaithful(ereq[r])

LEMMA EIdleFaithful == EFaithful(EIdle)
BY DEF EFaithful, EIdle

LEMMA EFaithfulInit == EntrypointsInit => EntrypointsFaithful
BY EIdleFaithful DEF EntrypointsInit, EntrypointsFaithful

LEMMA EGotoFaithful ==
    ASSUME EntrypointReqOK, EntrypointsFaithful, NEW r \in EntrypointReq,
           NEW q, EFaithful(q), EGoto(r, q)
    PROVE  EntrypointsFaithful'
<1>1. \A s \in EntrypointReq : ereq'[s] = IF s = r THEN q ELSE ereq[s]
    BY DEF EntrypointReqOK, EGoto
<1> QED BY <1>1 DEF EntrypointsFaithful

LEMMA ArriveFaithful ==
    ASSUME EntrypointReqOK, EntrypointsFaithful, NEW r \in EntrypointReq,
           NEW op, NEW u, NEW body, NEW id, NEW loaded, NEW obj,
           EFaithful([pc |-> "commit", op |-> op, user |-> u, body |-> body, id |-> id,
                      loaded |-> loaded, obj |-> obj]),
           Arrive(r, op, u, body, id, loaded, obj)
    PROVE  EntrypointsFaithful'
<1> DEFINE q == [pc |-> "commit", op |-> op, user |-> u, body |-> body, id |-> id,
                 loaded |-> loaded, obj |-> obj]
<1>1. EFaithful(q) /\ EGoto(r, q)
    BY DEF Arrive
<1> HIDE DEF q
<1> QED BY <1>1, EGotoFaithful

\* What patching three fields of a row comes to.
LEMMA EPatchedForm ==
    ASSUME NEW row \in EntrypointRow, NEW p \in EntrypointPatch
    PROVE  [row EXCEPT !.doi_is_draft = Given(p.doi_is_draft, @),
                       !.is_archived = Given(p.is_archived, @),
                       !.func = Given(p.func, @)]
            = [owner |-> row.owner, doi |-> row.doi,
               doi_is_draft |-> Given(p.doi_is_draft, row.doi_is_draft),
               is_archived |-> Given(p.is_archived, row.is_archived),
               func |-> Given(p.func, row.func)]
<1> DEFINE new == [row EXCEPT !.doi_is_draft = Given(p.doi_is_draft, @),
                              !.is_archived = Given(p.is_archived, @),
                              !.func = Given(p.func, @)]
<1>1. /\ new \in EntrypointRow /\ new.owner = row.owner /\ new.doi = row.doi
      /\ new.doi_is_draft = Given(p.doi_is_draft, row.doi_is_draft)
      /\ new.is_archived = Given(p.is_archived, row.is_archived)
      /\ new.func = Given(p.func, row.func)
    BY DEF EntrypointRow, EntrypointPatch, Given
<1> HIDE DEF new
<1>2. new = [owner |-> new.owner, doi |-> new.doi, doi_is_draft |-> new.doi_is_draft,
             is_archived |-> new.is_archived, func |-> new.func]
    BY <1>1 DEF EntrypointRow
<1>3. new = [owner |-> row.owner, doi |-> row.doi,
             doi_is_draft |-> Given(p.doi_is_draft, row.doi_is_draft),
             is_archived |-> Given(p.is_archived, row.is_archived),
             func |-> Given(p.func, row.func)]
    BY <1>1, <1>2, Zenon
<1> QED BY <1>3 DEF new

LEMMA EArrivalsFaithful ==
    ASSUME TablesTypeOK, EntrypointReqOK, EntrypointsFaithful, NEW r \in EntrypointReq,
           \/ \E u \in User, b \in EntrypointBodies : AddEntrypoint(r, u, b)
           \/ \E u \in User, d \in Doi, b \in EntrypointBodies : ReplaceEntrypoint(r, u, d, b)
           \/ \E u \in User, d \in Doi, p \in EntrypointPatches : UpdateEntrypoint(r, u, d, p)
           \/ \E u \in User, d \in Doi : DeleteEntrypoint(r, u, d)
    PROVE  EntrypointsFaithful'
<1>1. ASSUME NEW op \in {"create", "replace"}, NEW u, NEW b \in EntrypointBodies, NEW id,
             NEW loaded,
             Arrive(r, op, u, NULL, id, loaded, FromBody(b, Given(b.owner_identity_id, u)))
      PROVE  EntrypointsFaithful'
    <2> DEFINE obj == FromBody(b, Given(b.owner_identity_id, u))
               q == [pc |-> "commit", op |-> op, user |-> u, body |-> NULL, id |-> id,
                     loaded |-> loaded, obj |-> obj]
    <2>1. EFaithful(q)
        BY DEF EFaithful, EMadeFrom
    <2> HIDE DEF obj
    <2> QED BY <1>1, <2>1, ArriveFaithful DEF obj
<1>2. ASSUME NEW u \in User, NEW b \in EntrypointBodies, AddEntrypoint(r, u, b)
      PROVE  EntrypointsFaithful'
    BY <1>1, <1>2 DEF AddEntrypoint
<1>3. ASSUME NEW u \in User, NEW d \in Doi, NEW b \in EntrypointBodies,
             ReplaceEntrypoint(r, u, d, b)
      PROVE  EntrypointsFaithful'
    <2>1. ASSUME NEW e \in ByDoi(entrypoints, d), DeletableBy(entrypoints[e], u),
                 Arrive(r, "replace", u, NULL, e, entrypoints[e],
                        FromBody(b, Given(b.owner_identity_id, entrypoints[e].owner)))
          PROVE  EntrypointsFaithful'
        <3>1. PICK loaded : loaded = entrypoints[e]
            OBVIOUS
        <3>2. Arrive(r, "replace", u, NULL, e, loaded,
                     FromBody(b, Given(b.owner_identity_id, u)))
            BY <2>1, <3>1 DEF DeletableBy
        <3> QED BY <1>1, <3>2
    <2> QED BY <1>2, <1>3, <2>1 DEF ReplaceEntrypoint
<1>4. ASSUME NEW u \in User, NEW d \in Doi, NEW p \in EntrypointPatches,
             UpdateEntrypoint(r, u, d, p)
      PROVE  EntrypointsFaithful'
    <2>1. PICK e \in ByDoi(entrypoints, d) :
            LET row == entrypoints[e]
                obj == [row EXCEPT !.doi_is_draft = Given(p.doi_is_draft, @),
                                   !.is_archived = Given(p.is_archived, @),
                                   !.func = Given(p.func, @)]
            IN  /\ ~ArchivedDraft(obj)
                /\ ~obj.doi_is_draft => p.func = NULL
                /\ Arrive(r, "patch", u, p, e, row, obj)
        BY <1>4 DEF UpdateEntrypoint
    <2> DEFINE row == entrypoints[e]
               obj == [row EXCEPT !.doi_is_draft = Given(p.doi_is_draft, @),
                                  !.is_archived = Given(p.is_archived, @),
                                  !.func = Given(p.func, @)]
               q == [pc |-> "commit", op |-> "patch", user |-> u, body |-> p, id |-> e,
                     loaded |-> row, obj |-> obj]
    <2>2. p \in EntrypointPatch /\ row \in EntrypointRow
        BY EByDoiRows, EntrypointPayloadAssumption
    <2>3. obj = [owner |-> row.owner, doi |-> row.doi,
                 doi_is_draft |-> Given(p.doi_is_draft, row.doi_is_draft),
                 is_archived |-> Given(p.is_archived, row.is_archived),
                 func |-> Given(p.func, row.func)]
        BY <2>2, EPatchedForm
    <2>4. /\ ~ArchivedDraft(obj)
          /\ ~obj.doi_is_draft => p.func = NULL
          /\ Arrive(r, "patch", u, p, e, row, obj)
        BY <2>1
    <2> HIDE DEF obj, row
    <2>5. EFaithful(q)
        BY <2>3, <2>4 DEF EFaithful, EPatchedBy
    <2> QED BY <2>4, <2>5, ArriveFaithful
<1>5. ASSUME NEW u \in User, NEW d \in Doi, DeleteEntrypoint(r, u, d)
      PROVE  EntrypointsFaithful'
    <2>1. PICK e, loaded : Arrive(r, "delete", u, NULL, e, loaded, NULL)
        BY <1>5 DEF DeleteEntrypoint
    <2>2. EFaithful([pc |-> "commit", op |-> "delete", user |-> u, body |-> NULL, id |-> e,
                     loaded |-> loaded, obj |-> NULL])
        BY DEF EFaithful
    <2> QED BY <2>1, <2>2, ArriveFaithful
<1> QED BY <1>2, <1>3, <1>4, <1>5

\* Every request in flight commits what its payload asks for.
LEMMA EntrypointStepFaithful ==
    ASSUME TablesTypeOK, EntrypointReqOK, EntrypointsFaithful, NEW r \in EntrypointReq,
           EntrypointStep(r)
    PROVE  EntrypointsFaithful'
<1>1. CASE EFinish(r)
    BY <1>1, EIdleFaithful, EGotoFaithful DEF EFinish
<1>2. CASE CommitUpdatedEntrypoint(r)
    <2> DEFINE q == ereq[r]
               hiding == [q EXCEPT !.pc = "hide"]
    <2>1. q \in EntrypointRequest
        BY <1>2, EBusy DEF CommitUpdatedEntrypoint, EAt
    <2>2. hiding.pc = "hide"
        BY <2>1 DEF EntrypointRequest
    <2>3. EGoto(r, hiding) \/ EFinish(r)
        BY <1>2 DEF CommitUpdatedEntrypoint, EFinish
    <2> HIDE DEF hiding
    <2>4. EFaithful(hiding)
        BY <2>2 DEF EFaithful
    <2> QED BY <1>1, <2>3, <2>4, EGotoFaithful
<1> QED BY <1>1, <1>2, EArrivalsFaithful
        DEF EntrypointStep, CommitNewEntrypoint, CommitDeletedEntrypoint, ArchiveEntrypoint
=============================================================================
