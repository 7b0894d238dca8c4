---------------------------- MODULE Gardens_proof ----------------------------
(***************************************************************************)
(* Proofs about Gardens: what a garden request in flight stands for, and   *)
(* that its steps keep the tables well formed.                             *)
(***************************************************************************)
EXTENDS Gardens, TLAPS

\* A request past its checks: what each program counter may rely on. The row it
\* loaded passed the checks of its route before the first await, or (a replace
\* that asks doi.org first) passes them before it collects members.
Checked(q) ==
    /\ q.op # "create" => q.id \in GardenId /\ q.loaded \in GardenRow
    /\ q.op = "patch" =>
        q.body \in GardenPatch /\ EditableBy(q.loaded, q.body.is_archived, q.user)
    /\ q.pc \in {"resolve", "collect"} =>
        q.op # "delete" /\ (q.op # "patch" => q.body \in GardenBody)
    /\ q.pc = "resolve" => q.op # "patch"
    /\ q.pc = "collect" =>
        IF q.op = "patch" THEN q.loaded.doi_is_draft ELSE q.body.doi_is_draft \in BOOLEAN
    /\ q.pc \in {"collect", "commit"} /\ q.op \in {"replace", "delete"} =>
        DeletableBy(q.loaded, q.user)
    /\ q.pc = "commit" =>
        /\ q.op # "delete" => q.obj \in GardenRow
        /\ q.op = "patch" =>
            /\ q.obj.owner = q.loaded.owner /\ q.obj.doi = q.loaded.doi
            /\ q.obj.modal_functions = q.loaded.modal_functions
            /\ q.obj.entrypoints # q.loaded.entrypoints => q.loaded.doi_is_draft

GardenReqOK == greq \in [GardenReq -> {q \in GardenRequest : Checked(q)} \cup {Idle}]

LEMMA GardenReqTyped == GardenReqOK => GardenReqTypeOK
BY DEF GardenReqOK, GardenReqTypeOK

LEMMA GardenReqInit == GardensInit => GardenReqOK
BY DEF GardensInit, GardenReqOK

\* A slot that is not idle holds a checked request.
LEMMA Busy ==
    ASSUME GardenReqOK, NEW r \in GardenReq, greq[r].pc # "idle"
    PROVE  greq[r] \in GardenRequest /\ Checked(greq[r])
BY DEF GardenReqOK, Idle

LEMMA GotoKeeps ==
    ASSUME GardenReqOK, NEW r \in GardenReq,
           NEW q \in {p \in GardenRequest : Checked(p)} \cup {Idle}, Goto(r, q)
    PROVE  GardenReqOK'
BY DEF GardenReqOK, Goto, Checked, EditableBy, DeletableBy

\* What an update of two fields of a request comes to.
LEMMA SetObj ==
    ASSUME NEW q \in GardenRequest, NEW x
    PROVE  [q EXCEPT !.pc = "commit", !.obj = x]
            = [pc |-> "commit", op |-> q.op, user |-> q.user, body |-> q.body,
               id |-> q.id, loaded |-> q.loaded, obj |-> x]
<1> DEFINE n == [pc |-> "commit", op |-> q.op, user |-> q.user, body |-> q.body,
                 id |-> q.id, loaded |-> q.loaded, obj |-> q.obj]
<1>1. [q EXCEPT !.pc = "commit"] = n
    BY DEF GardenRequest
<1>2. [n EXCEPT !.obj = x]
        = [pc |-> "commit", op |-> q.op, user |-> q.user, body |-> q.body,
           id |-> q.id, loaded |-> q.loaded, obj |-> x]
    OBVIOUS
<1> HIDE DEF n
<1> QED BY <1>1, <1>2

LEMMA SetBody ==
    ASSUME NEW q \in GardenRequest, NEW x
    PROVE  [q EXCEPT !.pc = "collect", !.body = x]
            = [pc |-> "collect", op |-> q.op, user |-> q.user, body |-> x,
               id |-> q.id, loaded |-> q.loaded, obj |-> q.obj]
<1> DEFINE n == [pc |-> "collect", op |-> q.op, user |-> q.user, body |-> q.body,
                 id |-> q.id, loaded |-> q.loaded, obj |-> q.obj]
<1>1. [q EXCEPT !.pc = "collect"] = n
    BY DEF GardenRequest
<1>2. [n EXCEPT !.body = x]
        = [pc |-> "collect", op |-> q.op, user |-> q.user, body |-> x,
           id |-> q.id, loaded |-> q.loaded, obj |-> q.obj]
    OBVIOUS
<1> HIDE DEF n
<1> QED BY <1>1, <1>2

-----------------------------------------------------------------------------
\* The keys a lookup by DOI returns hold rows.
LEMMA ByDoiRows ==
    ASSUME TablesTypeOK, NEW d \in Doi, NEW g \in ByDoi(gardens, d)
    PROVE  g \in GardenId /\ gardens[g] \in GardenRow
BY DEF TablesTypeOK, ByDoi, Live

\* The fields of a garden row, which the provers do not look into by themselves.
LEMMA RowFields ==
    ASSUME NEW row \in GardenRow
    PROVE  /\ row.owner \in User /\ row.doi \in Doi
           /\ row.doi_is_draft \in BOOLEAN /\ row.is_archived \in BOOLEAN
           /\ row.entrypoints \in SUBSET EntrypointId
           /\ row.modal_functions \in SUBSET ModalFnId
BY DEF GardenRow

LEMMA PatchedRow ==
    ASSUME NEW row \in GardenRow, NEW p \in GardenPatch, NEW m \in SUBSET EntrypointId
    PROVE  /\ PatchedGarden(row, p, m) \in GardenRow
           /\ PatchedGarden(row, p, m).owner = row.owner
           /\ PatchedGarden(row, p, m).doi = row.doi
           /\ PatchedGarden(row, p, m).modal_functions = row.modal_functions
           /\ PatchedGarden(row, p, m).entrypoints = m
BY DEF GardenRow, GardenPatch, PatchedGarden, Given

LEMMA FlushedRow ==
    ASSUME NEW row \in GardenRow, NEW loaded \in GardenRow, NEW obj \in GardenRow
    PROVE  FlushedGarden(row, loaded, obj) \in GardenRow
BY DEF GardenRow, FlushedGarden, FlushColumn, FlushSet

-----------------------------------------------------------------------------
(* Arrivals *)

LEMMA AddKeeps ==
    ASSUME GardenReqOK, NEW r \in GardenReq, NEW u \in User, NEW b \in GardenBodies,
           AddGarden(r, u, b)
    PROVE  GardenReqOK'
<1>1. b \in GardenBody /\ b.doi_is_draft \in BOOLEAN \cup {NULL}
    BY GardenPayloadAssumption DEF GardenBody
<1> DEFINE q == [Request("create", u, b, NULL, NULL) EXCEPT !.pc = FirstStep(b)]
<1>2. q = [pc |-> FirstStep(b), op |-> "create", user |-> u, body |-> b, id |-> NULL,
           loaded |-> NULL, obj |-> NULL]
    BY DEF Request
<1>3. q \in GardenRequest
    BY <1>1, <1>2 DEF GardenRequest, FirstStep
<1>4. Checked(q)
    BY <1>1, <1>2 DEF Checked, FirstStep
<1>5. Goto(r, q)
    BY DEF AddGarden
<1> HIDE DEF q
<1> QED BY <1>3, <1>4, <1>5, GotoKeeps

LEMMA ReplaceKeeps ==
    ASSUME TablesTypeOK, GardenReqOK, NEW r \in GardenReq, NEW u \in User,
           NEW d \in Doi, NEW b \in GardenBodies, ReplaceGarden(r, u, d, b)
    PROVE  GardenReqOK'
<1>1. CASE AddGarden(r, u, b)
    BY <1>1, AddKeeps
<1>2. ASSUME NEW g \in ByDoi(gardens, d),
             b.doi_is_draft # NULL => DeletableBy(gardens[g], u),
             Goto(r, [Request("replace", u, b, g, gardens[g]) EXCEPT !.pc = FirstStep(b)])
      PROVE  GardenReqOK'
    <2>1. b \in GardenBody /\ b.doi_is_draft \in BOOLEAN \cup {NULL}
        BY GardenPayloadAssumption DEF GardenBody
    <2>2. g \in GardenId /\ gardens[g] \in GardenRow
        BY ByDoiRows
    <2> DEFINE q == [Request("replace", u, b, g, gardens[g]) EXCEPT !.pc = FirstStep(b)]
    <2>3. q = [pc |-> FirstStep(b), op |-> "replace", user |-> u, body |-> b, id |-> g,
               loaded |-> gardens[g], obj |-> NULL]
        BY DEF Request
    <2>4. q \in GardenRequest
        BY <2>1, <2>2, <2>3 DEF GardenRequest, FirstStep
    <2>5. Checked(q)
        BY <1>2, <2>1, <2>2, <2>3 DEF Checked, FirstStep
    <2>6. Goto(r, q)
        BY <1>2
    <2> HIDE DEF q
    <2> QED BY <2>4, <2>5, <2>6, GotoKeeps
<1> QED BY <1>1, <1>2 DEF ReplaceGarden

LEMMA PatchKeeps ==
    ASSUME TablesTypeOK, GardenReqOK, NEW r \in GardenReq, NEW u \in User,
           NEW d \in Doi, NEW p \in GardenPatches, UpdateGarden(r, u, d, p)
    PROVE  GardenReqOK'
<1>1. PICK g \in ByDoi(gardens, d) :
        LET row == gardens[g]
            obj == PatchedGarden(row, p, row.entrypoints)
            q == Request("patch", u, p, g, row)
        IN  /\ EditableBy(row, p.is_archived, u)
            /\ \/ row.doi_is_draft /\ Goto(r, q)
               \/ Goto(r, [q EXCEPT !.pc = "commit", !.obj = obj])
    BY DEF UpdateGarden
<1> DEFINE row == gardens[g]
           obj == PatchedGarden(row, p, row.entrypoints)
           q == Request("patch", u, p, g, row)
           qc == [q EXCEPT !.pc = "commit", !.obj = obj]
<1>2. p \in GardenPatch /\ g \in GardenId /\ row \in GardenRow
    BY ByDoiRows, GardenPayloadAssumption
<1>3. /\ obj \in GardenRow /\ obj.owner = row.owner /\ obj.doi = row.doi
      /\ obj.modal_functions = row.modal_functions /\ obj.entrypoints = row.entrypoints
    BY <1>2, RowFields, PatchedRow
<1>4. EditableBy(row, p.is_archived, u)
    BY <1>1
<1>5. \/ row.doi_is_draft /\ Goto(r, q)
      \/ Goto(r, qc)
    BY <1>1
<1> HIDE DEF row, obj
<1>6. /\ q = [pc |-> "collect", op |-> "patch", user |-> u, body |-> p, id |-> g,
              loaded |-> row, obj |-> NULL]
      /\ q \in GardenRequest
    BY <1>2 DEF Request, GardenRequest
<1>7. qc = [pc |-> "commit", op |-> "patch", user |-> u, body |-> p, id |-> g,
            loaded |-> row, obj |-> obj]
    <2>1. qc = [pc |-> "commit", op |-> q.op, user |-> q.user, body |-> q.body,
                id |-> q.id, loaded |-> q.loaded, obj |-> obj]
        BY <1>6, SetObj
    <2> HIDE DEF qc
    <2> QED BY <1>6, <2>1
<1> HIDE DEF q, qc
<1>8. CASE row.doi_is_draft /\ Goto(r, q)
    <2>1. q \in GardenRequest /\ Checked(q)
        BY <1>2, <1>4, <1>6, <1>8 DEF GardenRequest, Checked
    <2> QED BY <1>8, <2>1, GotoKeeps
<1>9. CASE Goto(r, qc)
    <2>1. qc \in GardenRequest /\ Checked(qc)
        BY <1>2, <1>3, <1>4, <1>7 DEF GardenRequest, Checked
    <2> QED BY <1>9, <2>1, GotoKeeps
<1> QED BY <1>5, <1>8, <1>9

LEMMA DeleteKeeps ==
    ASSUME TablesTypeOK, GardenReqOK, NEW r \in GardenReq, NEW u \in User,
           NEW d \in Doi, DeleteGarden(r, u, d)
    PROVE  GardenReqOK'
<1>1. PICK g \in ByDoi(gardens, d) :
        /\ DeletableBy(gardens[g], u)
        /\ Goto(r, [Request("delete", u, NULL, g, gardens[g]) EXCEPT !.pc = "commit"])
    BY DEF DeleteGarden
<1> DEFINE q == [Request("delete", u, NULL, g, gardens[g]) EXCEPT !.pc = "commit"]
<1>2. g \in GardenId /\ gardens[g] \in GardenRow
    BY ByDoiRows
<1>3. q = [pc |-> "commit", op |-> "delete", user |-> u, body |-> NULL, id |-> g,
           loaded |-> gardens[g], obj |-> NULL]
    BY DEF Request
<1>4. q \in GardenRequest /\ Checked(q)
    BY <1>1, <1>2, <1>3 DEF GardenRequest, Checked
<1>5. Goto(r, q)
    BY <1>1
<1> HIDE DEF q
<1> QED BY <1>4, <1>5, GotoKeeps

-----------------------------------------------------------------------------
(* Steps before the commit *)

LEMMA ResolveKeeps ==
    ASSUME GardenReqOK, NEW r \in GardenReq, ResolveDraft(r)
    PROVE  GardenReqOK'
<1> DEFINE q == greq[r]
           draft == ~Resolves(q.body.doi)
           b == [q.body EXCEPT !.doi_is_draft = draft]
           qn == [q EXCEPT !.pc = "collect", !.body = b]
<1>1. q \in GardenRequest /\ Checked(q) /\ q.pc = "resolve"
    BY Busy DEF ResolveDraft, At
<1>2. \/ (q.op = "replace" => DeletableBy(q.loaded, q.user)) /\ Goto(r, qn)
      \/ Finish(r)
    BY DEF ResolveDraft
<1>3. CASE Finish(r)
    BY <1>3, GotoKeeps DEF Finish
<1>4. CASE (q.op = "replace" => DeletableBy(q.loaded, q.user)) /\ Goto(r, qn)
    <2>1. draft \in BOOLEAN
        BY DEF Resolves
    <2> HIDE DEF draft
    <2>2. q.body \in GardenBody /\ q.op \in {"create", "replace"}
        BY <1>1 DEF Checked, GardenRequest
    <2>3. b \in GardenBody /\ b.doi_is_draft = draft
        BY <2>1, <2>2 DEF GardenBody
    <2> HIDE DEF b
    <2>4. qn = [pc |-> "collect", op |-> q.op, user |-> q.user, body |-> b, id |-> q.id,
                loaded |-> q.loaded, obj |-> q.obj]
        BY <1>1, SetBody
    <2> HIDE DEF q, qn
    <2>5. qn \in GardenRequest
        BY <1>1, <2>3, <2>4 DEF GardenRequest
    <2>6. Checked(qn)
        BY <1>1, <1>4, <2>1, <2>2, <2>3, <2>4 DEF Checked
    <2> QED BY <1>4, <2>5, <2>6, GotoKeeps
<1> QED BY <1>2, <1>3, <1>4

LEMMA CollectKeeps ==
    ASSUME TablesTypeOK, GardenReqOK, NEW r \in GardenReq, CollectMembers(r)
    PROVE  GardenReqOK'
<1> DEFINE q == greq[r]
           members == {e \in Live(entrypoints) : entrypoints[e].doi \in q.body.entrypoint_ids}
           obj == Collected(q, members)
           qn == [q EXCEPT !.pc = "commit", !.obj = obj]
<1>1. q \in GardenRequest /\ Checked(q) /\ q.pc = "collect"
    BY Busy DEF CollectMembers, At
<1>2. \/ /\ q.op # "patch" => q.body.modal_function_ids \subseteq modal_functions
         /\ Goto(r, qn)
      \/ Finish(r)
    BY DEF CollectMembers
<1>3. CASE Finish(r)
    BY <1>3, GotoKeeps DEF Finish
<1>4. CASE /\ q.op # "patch" => q.body.modal_function_ids \subseteq modal_functions
           /\ Goto(r, qn)
    <2>1. members \in SUBSET EntrypointId
        BY DEF TablesTypeOK, Live
    <2> HIDE DEF members
    <2>2. /\ obj \in GardenRow
          /\ q.op = "patch" =>
                /\ obj.owner = q.loaded.owner /\ obj.doi = q.loaded.doi
                /\ obj.modal_functions = q.loaded.modal_functions
        <3>1. CASE q.op = "patch"
            <4>1. q.body \in GardenPatch /\ q.loaded \in GardenRow
                BY <1>1, <3>1 DEF Checked
            <4> QED BY <2>1, <3>1, <4>1, PatchedRow DEF Collected
        <3>2. CASE q.op # "patch"
            <4>1. q.body \in GardenBody /\ q.body.doi_is_draft \in BOOLEAN /\ q.user \in User
                    /\ (q.op # "create" => q.loaded \in GardenRow)
                BY <1>1, <3>2 DEF Checked, GardenRequest
            <4>2. OwnerGiven(q) \in User
                BY <4>1 DEF OwnerGiven, Given, GardenBody, GardenRow
            <4>3. obj = [owner |-> OwnerGiven(q), doi |-> q.body.doi,
                         doi_is_draft |-> q.body.doi_is_draft,
                         is_archived |-> q.body.is_archived, entrypoints |-> members,
                         modal_functions |-> q.body.modal_function_ids]
                BY <3>2 DEF Collected
            <4>4. q.body.doi \in Doi /\ q.body.is_archived \in BOOLEAN
                    /\ q.body.modal_function_ids \in SUBSET ModalFnId
                BY <4>1 DEF GardenBody
            <4> QED BY <2>1, <3>2, <4>1, <4>2, <4>3, <4>4 DEF GardenRow
        <3> QED BY <3>1, <3>2
    <2> HIDE DEF obj
    <2>3. qn = [pc |-> "commit", op |-> q.op, user |-> q.user, body |-> q.body, id |-> q.id,
                loaded |-> q.loaded, obj |-> obj]
        BY <1>1, SetObj
    <2> HIDE DEF q, qn
    <2>4. qn \in GardenRequest
        BY <1>1, <2>2, <2>3 DEF GardenRequest
    <2>5. Checked(qn)
        BY <1>1, <2>2, <2>3 DEF Checked
    <2> QED BY <1>4, <2>4, <2>5, GotoKeeps
<1> QED BY <1>2, <1>3, <1>4

-----------------------------------------------------------------------------
(* Commits *)

\* What the tables say of gardens, however requests overlap: the parts of
\* Catalog's ReferentialIntegrity and UniqueKeys that garden rows take part in.
GardenMembersExist ==
    \A g \in Live(gardens) :
        /\ gardens[g].entrypoints \subseteq Live(entrypoints)
        /\ gardens[g].modal_functions \subseteq modal_functions

SavedGardensExist == \A s \in saved : s[2] \in Live(gardens)

GardenDoisUnique ==
    \A g, h \in Live(gardens) : gardens[g].doi = gardens[h].doi => g = h

GardenTablesOK == GardenMembersExist /\ SavedGardensExist /\ GardenDoisUnique

GardenTable == [GardenId -> GardenRow \cup {NULL, GONE}]

LEMMA LiveGardens ==
    ASSUME NEW T \in GardenTable
    PROVE  Live(T) = {g \in GardenId : T[g] \in GardenRow}
BY NoRowAssumption DEF Live, GardenTable

\* A commit that writes a row whose members exist under a DOI no other row has.
LEMMA WriteKeeps ==
    ASSUME TablesTypeOK, GardenTablesOK, NEW g \in GardenId, NEW row \in GardenRow,
           gardens' = [gardens EXCEPT ![g] = row],
           UNCHANGED <<entrypoints, modal_functions, saved, datacite>>,
           row.entrypoints \subseteq Live(entrypoints),
           row.modal_functions \subseteq modal_functions,
           ByDoi(gardens, row.doi) \subseteq {g}
    PROVE  TablesTypeOK' /\ GardenTablesOK'
<1>1. gardens \in GardenTable
    BY DEF TablesTypeOK, GardenTable
<1>2. /\ gardens' \in GardenTable /\ Live(gardens') = Live(gardens) \cup {g}
      /\ gardens'[g] = row /\ \A h \in GardenId \ {g} : gardens'[h] = gardens[h]
    <2>1. /\ gardens' \in GardenTable
          /\ gardens'[g] = row /\ \A h \in GardenId \ {g} : gardens'[h] = gardens[h]
        BY <1>1 DEF GardenTable
    <2> QED BY <1>1, <2>1, LiveGardens
<1>3. Live(gardens) \subseteq GardenId
    BY <1>1, LiveGardens
<1>4. TablesTypeOK'
    BY <1>2 DEF TablesTypeOK, GardenTable
<1>5. GardenMembersExist'
    <2> SUFFICES ASSUME NEW h \in Live(gardens')
                 PROVE  /\ gardens'[h].entrypoints \subseteq Live(entrypoints)
                        /\ gardens'[h].modal_functions \subseteq modal_functions
        BY DEF GardenMembersExist, Live
    <2> QED BY <1>2, <1>3 DEF GardenTablesOK, GardenMembersExist
<1>6. SavedGardensExist'
    BY <1>2 DEF GardenTablesOK, SavedGardensExist, Live
<1>7. GardenDoisUnique'
    <2> SUFFICES ASSUME NEW h \in Live(gardens'), NEW k \in Live(gardens'),
                        gardens'[h].doi = gardens'[k].doi
                 PROVE  h = k
        BY DEF GardenDoisUnique, Live
    <2>1. \A j \in Live(gardens) : gardens[j].doi = row.doi => j = g
        BY DEF ByDoi
    <2> QED BY <1>2, <1>3, <2>1 DEF GardenTablesOK, GardenDoisUnique
<1> QED BY <1>4, <1>5, <1>6, <1>7 DEF GardenTablesOK

LEMMA UnchangedTablesKeep ==
    TablesTypeOK /\ GardenTablesOK /\ UNCHANGED <<tables, datacite>>
        => TablesTypeOK' /\ GardenTablesOK'
BY DEF TablesTypeOK, GardenTablesOK, GardenMembersExist, SavedGardensExist,
       GardenDoisUnique, tables, Live

LEMMA FinishKeeps ==
    ASSUME GardenReqOK, NEW r \in GardenReq, Finish(r) PROVE GardenReqOK'
BY GotoKeeps DEF Finish

LEMMA CommitCreateKeeps ==
    ASSUME TablesTypeOK, GardenTablesOK, GardenReqOK, NEW r \in GardenReq, CommitCreate(r)
    PROVE  TablesTypeOK' /\ GardenTablesOK' /\ GardenReqOK'
<1> DEFINE obj == greq[r].obj
<1>1. GardenReqOK'
    BY FinishKeeps DEF CommitCreate
<1>2. obj \in GardenRow
    BY Busy DEF CommitCreate, At, Checked
<1>3. UNCHANGED <<entrypoints, modal_functions, saved, datacite>>
    BY DEF CommitCreate
<1>4. CASE UNCHANGED gardens
    BY <1>1, <1>3, <1>4, UnchangedTablesKeep DEF tables
<1>5. ASSUME InsertAllowed(obj),
             NEW g \in Fresh(gardens), gardens' = [gardens EXCEPT ![g] = obj]
      PROVE  TablesTypeOK' /\ GardenTablesOK'
    <2>1. g \in GardenId
        BY DEF Fresh, TablesTypeOK
    <2>2. /\ obj.entrypoints \subseteq Live(entrypoints)
          /\ obj.modal_functions \subseteq modal_functions
          /\ ByDoi(gardens, obj.doi) \subseteq {g}
        BY <1>5 DEF InsertAllowed, MembersExist
    <2> HIDE DEF obj
    <2> QED BY <1>2, <1>3, <1>5, <2>1, <2>2, WriteKeeps
<1> QED BY <1>1, <1>4, <1>5 DEF CommitCreate

LEMMA CommitUpdateKeeps ==
    ASSUME TablesTypeOK, GardenTablesOK, GardenReqOK, NEW r \in GardenReq, CommitUpdate(r)
    PROVE  TablesTypeOK' /\ GardenTablesOK' /\ GardenReqOK'
<1> DEFINE q == greq[r]
           hiding == [q EXCEPT !.pc = "hide"]
           row == FlushedGarden(gardens[q.id], q.loaded, q.obj)
<1>1. /\ q \in GardenRequest /\ Checked(q)
      /\ q.pc = "commit" /\ q.op \in {"replace", "patch"}
    BY Busy DEF CommitUpdate, At
<1>2. q.id \in GardenId /\ q.loaded \in GardenRow /\ q.obj \in GardenRow
    BY <1>1 DEF Checked
<1>3. UNCHANGED <<entrypoints, modal_functions, saved, datacite>>
    BY DEF CommitUpdate
<1>4. (Goto(r, hiding) /\ q.op = "patch") \/ Goto(r, Idle)
    BY DEF CommitUpdate, Finish
<1>5. GardenReqOK'
    <2>1. CASE Goto(r, hiding) /\ q.op = "patch"
        <3>1. hiding = [pc |-> "hide", op |-> q.op, user |-> q.user, body |-> q.body,
                        id |-> q.id, loaded |-> q.loaded, obj |-> q.obj]
            BY <1>1 DEF GardenRequest
        <3> HIDE DEF q, hiding
        <3>2. hiding \in GardenRequest /\ Checked(hiding)
            BY <1>1, <3>1 DEF GardenRequest, Checked
        <3> QED BY <2>1, <3>2, GotoKeeps
    <2> QED BY <1>4, <2>1, GotoKeeps
<1>6. CASE UNCHANGED gardens
    BY <1>3, <1>5, <1>6, UnchangedTablesKeep DEF tables
<1>7. ASSUME q.id \in Live(gardens), FlushAllowed(q.id, q.loaded, q.obj),
             gardens' = [gardens EXCEPT ![q.id] = row]
      PROVE  TablesTypeOK' /\ GardenTablesOK'
    <2> DEFINE old == gardens[q.id]
    <2>1. gardens \in GardenTable
        BY DEF TablesTypeOK, GardenTable
    <2>2. old \in GardenRow
        BY <1>7, <2>1, LiveGardens
    <2>3. row \in GardenRow
        BY <1>2, <2>2, FlushedRow
    <2>4. /\ row.entrypoints = FlushSet(old.entrypoints, q.loaded.entrypoints, q.obj.entrypoints)
          /\ row.modal_functions
                = FlushSet(old.modal_functions, q.loaded.modal_functions, q.obj.modal_functions)
          /\ row.doi = FlushColumn(old.doi, q.loaded.doi, q.obj.doi)
        BY DEF FlushedGarden
    <2>5. /\ old.entrypoints \subseteq Live(entrypoints)
          /\ old.modal_functions \subseteq modal_functions
          /\ \A j \in Live(gardens) : gardens[j].doi = old.doi => j = q.id
        BY <1>7 DEF GardenTablesOK, GardenMembersExist, GardenDoisUnique
    <2> HIDE DEF q, row, old
    <2>6. /\ row.entrypoints \subseteq Live(entrypoints)
          /\ row.modal_functions \subseteq modal_functions
        BY <1>7, <2>4, <2>5 DEF FlushSet, FlushAllowed
    <2>7. ByDoi(gardens, row.doi) \subseteq {q.id}
        BY <1>7, <2>4, <2>5 DEF FlushColumn, FlushAllowed, DoiFree, ByDoi
    <2> QED BY <1>2, <1>3, <1>7, <2>3, <2>6, <2>7, WriteKeeps
<1> QED BY <1>5, <1>6, <1>7 DEF CommitUpdate

LEMMA CommitDeleteKeeps ==
    ASSUME TablesTypeOK, GardenTablesOK, GardenReqOK, NEW r \in GardenReq, CommitDelete(r)
    PROVE  TablesTypeOK' /\ GardenTablesOK' /\ GardenReqOK'
<1> DEFINE q == greq[r]
<1>1. q.id \in GardenId
    BY Busy DEF CommitDelete, At, Checked
<1>2. GardenReqOK'
    BY FinishKeeps DEF CommitDelete
<1>3. UNCHANGED <<entrypoints, modal_functions, saved, datacite>>
    BY DEF CommitDelete
<1>4. CASE UNCHANGED gardens
    BY <1>2, <1>3, <1>4, UnchangedTablesKeep DEF tables
<1>5. ASSUME DeleteAllowed(q), gardens' = [gardens EXCEPT ![q.id] = GONE]
      PROVE  TablesTypeOK' /\ GardenTablesOK'
    <2>1. gardens \in GardenTable
        BY DEF TablesTypeOK, GardenTable
    <2>2. /\ gardens' \in GardenTable /\ Live(gardens') = Live(gardens) \ {q.id}
          /\ \A h \in GardenId \ {q.id} : gardens'[h] = gardens[h]
          /\ Live(gardens) \subseteq GardenId
        <3>1. /\ gardens' \in GardenTable /\ gardens'[q.id] = GONE
              /\ \A h \in GardenId \ {q.id} : gardens'[h] = gardens[h]
            BY <1>1, <1>5, <2>1 DEF GardenTable
        <3> QED BY <1>1, <2>1, <3>1, LiveGardens, NoRowAssumption
    <2>3. TablesTypeOK'
        BY <1>3, <2>2 DEF TablesTypeOK, GardenTable
    <2>4. GardenMembersExist' /\ GardenDoisUnique'
        BY <1>3, <2>2
           DEF GardenTablesOK, GardenMembersExist, GardenDoisUnique, Live
    <2>5. SavedGardensExist'
        <3> SUFFICES ASSUME NEW s \in saved PROVE s[2] \in Live(gardens')
            BY <1>3 DEF SavedGardensExist, Live
        <3>1. s[2] \in Live(gardens) /\ s = <<s[1], s[2]>> /\ s[1] \in User
            BY DEF GardenTablesOK, SavedGardensExist, TablesTypeOK
        <3>2. s[2] # q.id
            BY <1>5, <3>1 DEF DeleteAllowed
        <3> QED BY <2>2, <3>1, <3>2
    <2> QED BY <2>3, <2>4, <2>5 DEF GardenTablesOK
<1> QED BY <1>2, <1>4, <1>5 DEF CommitDelete

LEMMA ArchiveKeeps ==
    ASSUME TablesTypeOK, GardenTablesOK, GardenReqOK, NEW r \in GardenReq, ArchiveGarden(r)
    PROVE  TablesTypeOK' /\ GardenTablesOK' /\ GardenReqOK'
<1>1. GardenReqOK'
    BY FinishKeeps DEF ArchiveGarden
<1>2. UNCHANGED tables /\ datacite' \in [Doi -> DoiState]
    BY DEF ArchiveGarden, HideOnDatacite, TablesTypeOK, DoiState
<1>3. TablesTypeOK'
    BY <1>2 DEF TablesTypeOK, tables
<1>4. GardenTablesOK'
    BY <1>2 DEF tables, GardenTablesOK, GardenMembersExist, SavedGardensExist,
                GardenDoisUnique, Live
<1> QED BY <1>1, <1>3, <1>4

-----------------------------------------------------------------------------
\* No step of a garden request breaks what requests and tables rely on.
LEMMA GardenStepKeeps ==
    ASSUME TablesTypeOK, GardenTablesOK, GardenReqOK, NEW r \in GardenReq, GardenStep(r)
    PROVE  TablesTypeOK' /\ GardenTablesOK' /\ GardenReqOK'
<1>1. ASSUME NEW u \in User, NEW b \in GardenBodies, AddGarden(r, u, b)
      PROVE  GardenReqOK' /\ UNCHANGED <<tables, datacite>>
    BY <1>1, AddKeeps DEF AddGarden, ReadOnly
<1>2. ASSUME NEW u \in User, NEW d \in Doi, NEW b \in GardenBodies, ReplaceGarden(r, u, d, b)
      PROVE  GardenReqOK' /\ UNCHANGED <<tables, datacite>>
    BY <1>2, ReplaceKeeps DEF ReplaceGarden, AddGarden, ReadOnly
<1>3. ASSUME NEW u \in User, NEW d \in Doi, NEW p \in GardenPatches, UpdateGarden(r, u, d, p)
      PROVE  GardenReqOK' /\ UNCHANGED <<tables, datacite>>
    BY <1>3, PatchKeeps DEF UpdateGarden, ReadOnly
<1>4. ASSUME NEW u \in User, NEW d \in Doi, DeleteGarden(r, u, d)
      PROVE  GardenReqOK' /\ UNCHANGED <<tables, datacite>>
    BY <1>4, DeleteKeeps DEF DeleteGarden, ReadOnly
<1>5. CASE ResolveDraft(r) \/ CollectMembers(r)
    <2>1. GardenReqOK' /\ UNCHANGED <<tables, datacite>>
        BY <1>5, ResolveKeeps, CollectKeeps DEF ResolveDraft, CollectMembers, ReadOnly
    <2> QED BY <2>1, UnchangedTablesKeep
<1>6. CASE CommitCreate(r) \/ CommitUpdate(r) \/ CommitDelete(r) \/ ArchiveGarden(r)
    BY <1>6, CommitCreateKeeps, CommitUpdateKeeps, CommitDeleteKeeps, ArchiveKeeps
<1> QED BY <1>1, <1>2, <1>3, <1>4, <1>5, <1>6, UnchangedTablesKeep DEF GardenStep

-----------------------------------------------------------------------------
(* Garden requests that keep apart: no two handle the same garden at once *)

Handling(r, g) == greq[r] # Idle /\ greq[r].op # "create" /\ greq[r].id = g

GardensApart ==
    \A g \in GardenId : \A r, s \in GardenReq : Handling(r, g) /\ Handling(s, g) => r = s

\* What a request loaded is still there when it commits, and what it archived
\* when it asks DataCite to hide the DOI.
Current(q) ==
    /\ q.pc \in {"resolve", "collect", "commit"} /\ q.op # "create" =>
        q.id \in Live(gardens) /\ q.loaded = gardens[q.id]
    /\ q.pc = "hide" =>
        /\ q.op = "patch" /\ q.id \in Live(gardens)
        /\ gardens[q.id].doi = q.loaded.doi /\ gardens[q.id].is_archived

GardensCurrent == \A r \in GardenReq : Current(greq[r])

LEMMA CurrentInit == GardensInit => GardensCurrent
BY DEF GardensInit, GardensCurrent, Current, Idle

LEMMA GotoCurrent ==
    ASSUME GardenReqOK, GardensCurrent, NEW r \in GardenReq, NEW q, Current(q), Goto(r, q),
           UNCHANGED gardens
    PROVE  GardensCurrent'
<1>1. \A s \in GardenReq : greq'[s] = IF s = r THEN q ELSE greq[s]
    BY DEF GardenReqOK, Goto
<1>2. \A p : Current(p)' <=> Current(p)
    BY DEF Current, Live
<1> QED BY <1>1, <1>2 DEF GardensCurrent

LEMMA IdleCurrent == Current(Idle)
BY DEF Current, Idle

LEMMA ArrivalsCurrent ==
    ASSUME TablesTypeOK, GardenReqOK, GardensCurrent, NEW r \in GardenReq,
           \/ \E u \in User, b \in GardenBodies : AddGarden(r, u, b)
           \/ \E u \in User, d \in Doi, b \in GardenBodies : ReplaceGarden(r, u, d, b)
           \/ \E u \in User, d \in Doi, p \in GardenPatches : UpdateGarden(r, u, d, p)
           \/ \E u \in User, d \in Doi : DeleteGarden(r, u, d)
    PROVE  GardensCurrent'
<1>1. ASSUME NEW u \in User, NEW b \in GardenBodies, AddGarden(r, u, b)
      PROVE  GardensCurrent'
    <2> DEFINE q == [Request("create", u, b, NULL, NULL) EXCEPT !.pc = FirstStep(b)]
    <2>1. q = [pc |-> FirstStep(b), op |-> "create", user |-> u, body |-> b, id |-> NULL,
               loaded |-> NULL, obj |-> NULL]
        BY DEF Request
    <2>2. Current(q)
        BY <2>1 DEF Current, FirstStep
    <2>3. Goto(r, q) /\ UNCHANGED gardens
        BY <1>1 DEF AddGarden, ReadOnly, tables
    <2> HIDE DEF q
    <2> QED BY <2>2, <2>3, GotoCurrent
<1>2. ASSUME NEW u \in User, NEW d \in Doi, NEW b \in GardenBodies, ReplaceGarden(r, u, d, b)
      PROVE  GardensCurrent'
    <2>1. CASE AddGarden(r, u, b)
        BY <1>1, <2>1
    <2>2. ASSUME NEW g \in ByDoi(gardens, d),
                 Goto(r, [Request("replace", u, b, g, gardens[g]) EXCEPT !.pc = FirstStep(b)]),
                 UNCHANGED gardens
          PROVE  GardensCurrent'
        <3> DEFINE q == [Request("replace", u, b, g, gardens[g]) EXCEPT !.pc = FirstStep(b)]
        <3>1. q = [pc |-> FirstStep(b), op |-> "replace", user |-> u, body |-> b, id |-> g,
                   loaded |-> gardens[g], obj |-> NULL]
            BY DEF Request
        <3>2. Current(q)
            BY <3>1 DEF Current, FirstStep, ByDoi
        <3>3. Goto(r, q)
            BY <2>2
        <3> HIDE DEF q
        <3> QED BY <2>2, <3>2, <3>3, GotoCurrent
    <2> QED BY <1>2, <2>1, <2>2 DEF ReplaceGarden, ReadOnly, tables
<1>3. ASSUME NEW u \in User, NEW d \in Doi, NEW p \in GardenPatches, UpdateGarden(r, u, d, p)
      PROVE  GardensCurrent'
    <2>1. PICK g \in ByDoi(gardens, d) :
            LET row == gardens[g]
                obj == PatchedGarden(row, p, row.entrypoints)
                q == Request("patch", u, p, g, row)
            IN  Goto(r, q) \/ Goto(r, [q EXCEPT !.pc = "commit", !.obj = obj])
        BY <1>3 DEF UpdateGarden
    <2> DEFINE row == gardens[g]
               obj == PatchedGarden(row, p, row.entrypoints)
               q == Request("patch", u, p, g, row)
               qc == [q EXCEPT !.pc = "commit", !.obj = obj]
    <2>2. UNCHANGED gardens
        BY <1>3 DEF UpdateGarden, ReadOnly, tables
    <2>3. g \in Live(gardens)
        BY DEF ByDoi
    <2>4. p \in GardenPatch /\ g \in GardenId /\ row \in GardenRow
        BY ByDoiRows, GardenPayloadAssumption
    <2>5. Goto(r, q) \/ Goto(r, qc)
        BY <2>1
    <2> HIDE DEF obj
    <2>6. /\ q = [pc |-> "collect", op |-> "patch", user |-> u, body |-> p, id |-> g,
                  loaded |-> row, obj |-> NULL]
          /\ q \in GardenRequest
        BY <2>4 DEF Request, GardenRequest
    <2>7. qc = [pc |-> "commit", op |-> "patch", user |-> u, body |-> p, id |-> g,
                loaded |-> row, obj |-> obj]
        <3>1. qc = [pc |-> "commit", op |-> q.op, user |-> q.user, body |-> q.body,
                    id |-> q.id, loaded |-> q.loaded, obj |-> obj]
            BY <2>6, SetObj
        <3> HIDE DEF qc
        <3> QED BY <2>6, <3>1
    <2>8. Current(q)
        BY <2>3, <2>6 DEF Current
    <2>9. Current(qc)
        <3> HIDE DEF qc
        <3> QED BY <2>3, <2>7 DEF Current
    <2> HIDE DEF q, qc
    <2> QED BY <2>2, <2>5, <2>8, <2>9, GotoCurrent
<1>4. ASSUME NEW u \in User, NEW d \in Doi, DeleteGarden(r, u, d) PROVE GardensCurrent'
    <2>1. PICK g \in ByDoi(gardens, d) :
            /\ Goto(r, [Request("delete", u, NULL, g, gardens[g]) EXCEPT !.pc = "commit"])
            /\ UNCHANGED gardens
        BY <1>4 DEF DeleteGarden, ReadOnly, tables
    <2> DEFINE q == [Request("delete", u, NULL, g, gardens[g]) EXCEPT !.pc = "commit"]
    <2>2. q = [pc |-> "commit", op |-> "delete", user |-> u, body |-> NULL, id |-> g,
               loaded |-> gardens[g], obj |-> NULL]
        BY DEF Request
    <2>3. Current(q)
        BY <2>2 DEF Current, ByDoi
    <2>4. Goto(r, q)
        BY <2>1
    <2> HIDE DEF q
    <2> QED BY <2>1, <2>3, <2>4, GotoCurrent
<1> QED BY <1>1, <1>2, <1>3, <1>4

LEMMA AwaitsCurrent ==
    ASSUME TablesTypeOK, GardenReqOK, GardensCurrent, NEW r \in GardenReq,
           ResolveDraft(r) \/ CollectMembers(r) \/ ArchiveGarden(r)
    PROVE  GardensCurrent'
<1> DEFINE q == greq[r]
<1>1. UNCHANGED gardens
    BY DEF ResolveDraft, CollectMembers, ArchiveGarden, ReadOnly, tables
<1>2. Current(q)
    BY DEF GardensCurrent
<1>3. CASE Finish(r)
    BY <1>1, <1>3, IdleCurrent, GotoCurrent DEF Finish
<1>4. CASE ResolveDraft(r)
    <2> DEFINE b == [q.body EXCEPT !.doi_is_draft = ~Resolves(q.body.doi)]
               qn == [q EXCEPT !.pc = "collect", !.body = b]
    <2>1. q \in GardenRequest /\ q.pc = "resolve"
        BY <1>4, Busy DEF ResolveDraft, At
    <2>2. Goto(r, qn) \/ Finish(r)
        BY <1>4 DEF ResolveDraft
    <2> HIDE DEF b
    <2>3. qn = [pc |-> "collect", op |-> q.op, user |-> q.user, body |-> b, id |-> q.id,
                loaded |-> q.loaded, obj |-> q.obj]
        BY <2>1, SetBody
    <2> HIDE DEF qn, q
    <2>4. Current(qn)
        BY <1>2, <2>1, <2>3 DEF Current
    <2> QED BY <1>1, <1>3, <2>2, <2>4, GotoCurrent
<1>5. CASE CollectMembers(r)
    <2> DEFINE members == {e \in Live(entrypoints) : entrypoints[e].doi \in q.body.entrypoint_ids}
               obj == Collected(q, members)
               qn == [q EXCEPT !.pc = "commit", !.obj = obj]
    <2>1. q \in GardenRequest /\ q.pc = "collect"
        BY <1>5, Busy DEF CollectMembers, At
    <2>2. Goto(r, qn) \/ Finish(r)
        BY <1>5 DEF CollectMembers
    <2> HIDE DEF obj
    <2>3. qn = [pc |-> "commit", op |-> q.op, user |-> q.user, body |-> q.body, id |-> q.id,
                loaded |-> q.loaded, obj |-> obj]
        BY <2>1, SetObj
    <2> HIDE DEF qn, q
    <2>4. Current(qn)
        BY <1>2, <2>1, <2>3 DEF Current
    <2> QED BY <1>1, <1>3, <2>2, <2>4, GotoCurrent
<1> QED BY <1>3, <1>4, <1>5 DEF ArchiveGarden

\* A commit changes the row of its own garden only.
LEMMA CommitLeavesOthers ==
    ASSUME TablesTypeOK, GardenReqOK, GardensCurrent, GardensApart, NEW r \in GardenReq,
           NEW q, Goto(r, q), NEW g \in GardenId, NEW row,
           \A s \in GardenReq \ {r} : ~Handling(s, g),
           gardens' = [gardens EXCEPT ![g] = row],
           Current(q)'
    PROVE  GardensCurrent'
<1>1. gardens \in [GardenId -> GardenRow \cup {NULL, GONE}]
    BY DEF TablesTypeOK
<1>2. /\ DOMAIN gardens' = DOMAIN gardens
      /\ \A h \in GardenId \ {g} : gardens'[h] = gardens[h]
    BY <1>1
<1>3. ASSUME NEW s \in GardenReq \ {r} PROVE Current(greq[s])'
    <2> DEFINE p == greq[s]
    <2>1. greq'[s] = p
        BY DEF GardenReqOK, Goto
    <2>2. CASE p = Idle
        BY <2>1, <2>2 DEF Current, Idle
    <2>3. CASE p # Idle
        <3>1. p \in GardenRequest /\ Checked(p) /\ Current(p)
            BY <2>3 DEF GardenReqOK, GardensCurrent
        <3>2. CASE p.op = "create"
            BY <2>1, <3>1, <3>2 DEF Current
        <3>3. CASE p.op # "create"
            <4>1. p.id \in GardenId /\ p.id # g
                BY <2>3, <3>1, <3>3 DEF Checked, Handling
            <4>2. p.id \in Live(gardens) => p.id \in Live(gardens')
                BY <1>2, <4>1 DEF Live
            <4> QED BY <1>2, <2>1, <3>1, <4>1, <4>2 DEF Current
        <3> QED BY <3>2, <3>3
    <2> QED BY <2>2, <2>3
<1>4. greq'[r] = q
    BY DEF GardenReqOK, Goto
<1>5. Current(greq[r])'
    BY <1>4 DEF Current
<1> QED BY <1>3, <1>5 DEF GardensCurrent

LEMMA HandledLive ==
    ASSUME GardenReqOK, GardensCurrent, NEW s \in GardenReq, NEW g, Handling(s, g)
    PROVE  g \in Live(gardens)
<1>1. greq[s] \in GardenRequest /\ Current(greq[s])
    BY DEF GardenReqOK, GardensCurrent, Handling
<1>2. greq[s].pc \in {"resolve", "collect", "commit", "hide"}
    BY <1>1 DEF GardenRequest
<1> QED BY <1>1, <1>2 DEF Current, Handling

LEMMA CommitsCurrent ==
    ASSUME TablesTypeOK, GardenReqOK, GardensCurrent, GardensApart, NEW r \in GardenReq,
           CommitCreate(r) \/ CommitUpdate(r) \/ CommitDelete(r)
    PROVE  GardensCurrent'
<1> DEFINE q == greq[r]
<1>1. CASE UNCHANGED gardens /\ Finish(r)
    BY <1>1, IdleCurrent, GotoCurrent DEF Finish
<1>2. Current(Idle)'
    BY DEF Current, Idle
<1>3. gardens \in GardenTable
    BY DEF TablesTypeOK, GardenTable
<1>4. ASSUME q.pc = "commit", q.op # "create"
      PROVE  /\ q \in GardenRequest /\ Checked(q) /\ q.id \in GardenId
             /\ q.loaded \in GardenRow /\ q.loaded = gardens[q.id] /\ q.id \in Live(gardens)
             /\ \A s \in GardenReq \ {r} : ~Handling(s, q.id)
    <2>1. q \in GardenRequest /\ Checked(q) /\ Current(q) /\ q # Idle
        BY <1>4, Busy DEF GardensCurrent, Idle
    <2>2. q.id \in GardenId
        BY <1>4, <2>1 DEF Checked
    <2>3. Handling(r, q.id)
        BY <1>4, <2>1 DEF Handling
    <2> QED BY <1>4, <2>1, <2>2, <2>3 DEF Checked, Current, GardensApart
<1>5. CASE CommitCreate(r)
    <2>1. Finish(r)
        BY <1>5 DEF CommitCreate
    <2>2. ASSUME NEW h \in Fresh(gardens), gardens' = [gardens EXCEPT ![h] = q.obj]
          PROVE  GardensCurrent'
        <3>1. h \in GardenId /\ h \notin Live(gardens)
            BY <1>3 DEF Fresh, Live, GardenTable
        <3>2. \A s \in GardenReq \ {r} : ~Handling(s, h)
            BY <3>1, HandledLive
        <3> QED BY <1>2, <2>1, <2>2, <3>1, <3>2, CommitLeavesOthers DEF Finish
    <2> QED BY <1>1, <1>5, <2>1, <2>2 DEF CommitCreate
<1>6. CASE CommitDelete(r)
    <2>1. Finish(r) /\ q.pc = "commit" /\ q.op # "create"
        BY <1>6 DEF CommitDelete, At
    <2>2. CASE gardens' = [gardens EXCEPT ![q.id] = GONE]
        BY <1>2, <1>4, <2>1, <2>2, CommitLeavesOthers DEF Finish
    <2> QED BY <1>1, <1>6, <2>1, <2>2 DEF CommitDelete
<1>7. CASE CommitUpdate(r)
    <2> DEFINE row == FlushedGarden(gardens[q.id], q.loaded, q.obj)
               hiding == [q EXCEPT !.pc = "hide"]
    <2>1. q.pc = "commit" /\ q.op \in {"replace", "patch"}
        BY <1>7 DEF CommitUpdate, At
    <2>2. /\ q \in GardenRequest /\ Checked(q) /\ q.id \in GardenId
          /\ q.loaded \in GardenRow /\ q.loaded = gardens[q.id] /\ q.id \in Live(gardens)
          /\ \A s \in GardenReq \ {r} : ~Handling(s, q.id)
        BY <1>4, <2>1
    <2>3. q.obj \in GardenRow
        BY <2>1, <2>2 DEF Checked
    <2>4. CASE /\ gardens' = [gardens EXCEPT ![q.id] = row]
               /\ \/ Goto(r, Idle)
                  \/ q.op = "patch" /\ q.obj.is_archived /\ Goto(r, hiding)
        <3>1. CASE Goto(r, Idle)
            BY <1>2, <2>2, <2>4, <3>1, CommitLeavesOthers
        <3>2. CASE q.op = "patch" /\ q.obj.is_archived /\ Goto(r, hiding)
            <4>1. hiding = [pc |-> "hide", op |-> q.op, user |-> q.user, body |-> q.body,
                            id |-> q.id, loaded |-> q.loaded, obj |-> q.obj]
                BY <2>2 DEF GardenRequest
            <4>2. row \in GardenRow
                BY <2>2, <2>3, FlushedRow
            <4>3. q.obj.doi = q.loaded.doi
                BY <2>1, <2>2, <3>2 DEF Checked
            <4>4. row.doi = q.loaded.doi /\ row.is_archived
                BY <2>2, <3>2, <4>3 DEF FlushedGarden, FlushColumn
            <4>5. gardens'[q.id] = row /\ gardens' \in GardenTable
                BY <1>3, <2>2, <2>4, <4>2 DEF GardenTable
            <4> HIDE DEF row
            <4>6. q.id \in Live(gardens')
                BY <2>2, <4>2, <4>5, LiveGardens
            <4>7. PICK n, k, new : n = hiding /\ k = q.id /\ new = row
                OBVIOUS
            <4>8. /\ n.pc = "hide" /\ n.op = "patch" /\ n.id = k
                  /\ n.loaded.doi = new.doi /\ new.is_archived
                BY <3>2, <4>1, <4>4, <4>7
            <4>9. k \in Live(gardens') /\ gardens'[k] = new
                BY <4>5, <4>6, <4>7
            <4>10. /\ Goto(r, n) /\ k \in GardenId /\ gardens' = [gardens EXCEPT ![k] = new]
                   /\ \A s \in GardenReq \ {r} : ~Handling(s, k)
                BY <2>2, <2>4, <3>2, <4>7
            <4> HIDE DEF hiding, q
            <4>11. Current(n)'
                BY <4>8, <4>9 DEF Current, Live
            <4> QED BY <4>10, <4>11, CommitLeavesOthers
        <3> QED BY <2>4, <3>1, <3>2
    <2>5. \/ UNCHANGED gardens /\ Finish(r)
          \/ /\ gardens' = [gardens EXCEPT ![q.id] = row]
             /\ \/ Goto(r, Idle)
                \/ q.op = "patch" /\ q.obj.is_archived /\ Goto(r, hiding)
        BY <1>7, <2>2 DEF CommitUpdate
    <2> QED BY <1>1, <2>4, <2>5
<1> QED BY <1>5, <1>6, <1>7

\* While garden requests keep apart, each finds at its commit the row it loaded.
LEMMA GardenStepCurrent ==
    ASSUME TablesTypeOK, GardenReqOK, GardensCurrent, GardensApart, NEW r \in GardenReq,
           GardenStep(r)
    PROVE  GardensCurrent'
BY ArrivalsCurrent, AwaitsCurrent, CommitsCurrent DEF GardenStep

-----------------------------------------------------------------------------
(* What a request makes of its payload *)

\* The payload b, with a draft flag b may have left to doi.org.
Carries(q, b) ==
    /\ q.body.doi = b.doi /\ q.body.is_archived = b.is_archived
    /\ q.body.owner_identity_id = b.owner_identity_id
    /\ q.body.entrypoint_ids = b.entrypoint_ids
    /\ q.body.modal_function_ids = b.modal_function_ids
    /\ b.doi_is_draft \in {q.body.doi_is_draft, NULL}

\* The object of a POST or PUT of payload b.
MadeFrom(q, b) ==
    /\ q.obj = [owner |-> Given(b.owner_identity_id, q.user), doi |-> b.doi,
                doi_is_draft |-> q.obj.doi_is_draft, is_archived |-> b.is_archived,
                entrypoints |-> q.obj.entrypoints, modal_functions |-> b.modal_function_ids]
    /\ b.doi_is_draft \in {q.obj.doi_is_draft, NULL}
    /\ Cardinality(q.obj.entrypoints) = Cardinality(b.entrypoint_ids)

\* The object of a PATCH with payload p.
PatchedBy(q, p) ==
    /\ q.obj = [owner |-> q.loaded.owner, doi |-> q.loaded.doi,
                doi_is_draft |-> Given(p.doi_is_draft, q.loaded.doi_is_draft),
                is_archived |-> Given(p.is_archived, q.loaded.is_archived),
                entrypoints |-> q.obj.entrypoints,
                modal_functions |-> q.loaded.modal_functions]
    /\ ~ArchivedDraft(q.obj)
    /\ IF p.entrypoint_ids = NULL
       THEN q.obj.entrypoints = q.loaded.entrypoints
       ELSE /\ q.loaded.doi_is_draft
            /\ Cardinality(q.obj.entrypoints) = Cardinality(p.entrypoint_ids)

Faithful(q) ==
    /\ q.pc \in {"resolve", "collect"} /\ q.op # "patch" =>
        \E b \in GardenBodies : Carries(q, b)
    /\ q.pc = "resolve" => q.body.doi_is_draft = NULL
    /\ q.pc \in {"collect", "commit"} /\ q.op = "patch" => q.body \in GardenPatches
    /\ q.pc = "collect" /\ q.op = "patch" => q.body.entrypoint_ids # NULL
    /\ q.pc = "commit" /\ q.op \in {"create", "replace"} =>
        \E b \in GardenBodies : MadeFrom(q, b)
    /\ q.pc = "commit" /\ q.op = "patch" => PatchedBy(q, q.body)

GardensFaithful == \A r \in GardenReq : Faithful(greq[r])

LEMMA IdleFaithful == Faithful(Idle)
BY DEF Faithful, Idle

LEMMA FaithfulInit == GardensInit => GardensFaithful
BY IdleFaithful DEF GardensInit, GardensFaithful

LEMMA GotoFaithful ==
    ASSUME GardenReqOK, GardensFaithful, NEW r \in GardenReq, NEW q, Faithful(q), Goto(r, q)
    PROVE  GardensFaithful'
<1>1. \A s \in GardenReq : greq'[s] = IF s = r THEN q ELSE greq[s]
    BY DEF GardenReqOK, Goto
<1> QED BY <1>1 DEF GardensFaithful

\* What patching three fields of a row comes to.
LEMMA PatchedForm ==
    ASSUME NEW row \in GardenRow, NEW p \in GardenPatch, NEW m \in SUBSET EntrypointId
    PROVE  PatchedGarden(row, p, m)
            = [owner |-> row.owner, doi |-> row.doi,
               doi_is_draft |-> Given(p.doi_is_draft, row.doi_is_draft),
               is_archived |-> Given(p.is_archived, row.is_archived),
               entrypoints |-> m, modal_functions |-> row.modal_functions]
<1> DEFINE new == PatchedGarden(row, p, m)
<1>1. /\ new \in GardenRow /\ new.owner = row.owner /\ new.doi = row.doi
      /\ new.modal_functions = row.modal_functions /\ new.entrypoints = m
    BY PatchedRow
<1>2. /\ new.doi_is_draft = Given(p.doi_is_draft, row.doi_is_draft)
      /\ new.is_archived = Given(p.is_archived, row.is_archived)
    BY DEF GardenRow, PatchedGarden
<1> HIDE DEF new
<1>3. new = [owner |-> new.owner, doi |-> new.doi, doi_is_draft |-> new.doi_is_draft,
             is_archived |-> new.is_archived, entrypoints |-> new.entrypoints,
             modal_functions |-> new.modal_functions]
    BY <1>1 DEF GardenRow
<1>4. new = [owner |-> row.owner, doi |-> row.doi,
             doi_is_draft |-> Given(p.doi_is_draft, row.doi_is_draft),
             is_archived |-> Given(p.is_archived, row.is_archived),
             entrypoints |-> m, modal_functions |-> row.modal_functions]
    BY <1>1, <1>2, <1>3, Zenon
<1> QED BY <1>4 DEF new

LEMMA ArrivalsFaithful ==
    ASSUME TablesTypeOK, GardenReqOK, GardensFaithful, NEW r \in GardenReq,
           \/ \E u \in User, b \in GardenBodies : AddGarden(r, u, b)
           \/ \E u \in User, d \in Doi, b \in GardenBodies : ReplaceGarden(r, u, d, b)
           \/ \E u \in User, d \in Doi, p \in GardenPatches : UpdateGarden(r, u, d, p)
           \/ \E u \in User, d \in Doi : DeleteGarden(r, u, d)
    PROVE  GardensFaithful'
<1>1. ASSUME NEW op \in {"create", "replace"}, NEW u, NEW b \in GardenBodies, NEW id,
             NEW loaded,
             Goto(r, [Request(op, u, b, id, loaded) EXCEPT !.pc = FirstStep(b)])
      PROVE  GardensFaithful'
    <2> DEFINE q == [Request(op, u, b, id, loaded) EXCEPT !.pc = FirstStep(b)]
    <2>1. q = [pc |-> FirstStep(b), op |-> op, user |-> u, body |-> b, id |-> id,
               loaded |-> loaded, obj |-> NULL]
        BY DEF Request
    <2>2. Carries(q, b)
        BY <2>1 DEF Carries
    <2> HIDE DEF q
    <2>3. Faithful(q)
        BY <2>1, <2>2 DEF Faithful, FirstStep
    <2> QED BY <1>1, <2>3, GotoFaithful DEF q
<1>2. ASSUME NEW u \in User, NEW b \in GardenBodies, AddGarden(r, u, b)
      PROVE  GardensFaithful'
    BY <1>1, <1>2 DEF AddGarden
<1>3. ASSUME NEW u \in User, NEW d \in Doi, NEW b \in GardenBodies, ReplaceGarden(r, u, d, b)
      PROVE  GardensFaithful'
    <2>1. ASSUME NEW g \in ByDoi(gardens, d),
                 Goto(r, [Request("replace", u, b, g, gardens[g]) EXCEPT !.pc = FirstStep(b)])
          PROVE  GardensFaithful'
        <3>1. PICK loaded : loaded = gardens[g]
            OBVIOUS
        <3> QED BY <1>1, <2>1, <3>1
    <2> QED BY <1>2, <1>3, <2>1 DEF ReplaceGarden
<1>4. ASSUME NEW u \in User, NEW d \in Doi, NEW p \in GardenPatches, UpdateGarden(r, u, d, p)
      PROVE  GardensFaithful'
    <2>1. PICK g \in ByDoi(gardens, d) :
            LET row == gardens[g]
                obj == PatchedGarden(row, p, row.entrypoints)
                q == Request("patch", u, p, g, row)
            IN  \/ p.entrypoint_ids # NULL /\ Goto(r, q)
                \/ /\ p.entrypoint_ids = NULL /\ ~ArchivedDraft(obj)
                   /\ Goto(r, [q EXCEPT !.pc = "commit", !.obj = obj])
        BY <1>4 DEF UpdateGarden
    <2> DEFINE row == gardens[g]
               obj == PatchedGarden(row, p, row.entrypoints)
               q == Request("patch", u, p, g, row)
               qc == [q EXCEPT !.pc = "commit", !.obj = obj]
    <2>2. p \in GardenPatch /\ g \in GardenId /\ row \in GardenRow
        BY ByDoiRows, GardenPayloadAssumption
    <2>3. obj = [owner |-> row.owner, doi |-> row.doi,
                 doi_is_draft |-> Given(p.doi_is_draft, row.doi_is_draft),
                 is_archived |-> Given(p.is_archived, row.is_archived),
                 entrypoints |-> row.entrypoints, modal_functions |-> row.modal_functions]
        BY <2>2, RowFields, PatchedForm
    <2>4. \/ p.entrypoint_ids # NULL /\ Goto(r, q)
          \/ p.entrypoint_ids = NULL /\ ~ArchivedDraft(obj) /\ Goto(r, qc)
        BY <2>1
    <2> HIDE DEF obj, row
    <2>5. /\ q = [pc |-> "collect", op |-> "patch", user |-> u, body |-> p, id |-> g,
                  loaded |-> row, obj |-> NULL]
          /\ q \in GardenRequest
        BY <2>2 DEF Request, GardenRequest
    <2>6. qc = [pc |-> "commit", op |-> "patch", user |-> u, body |-> p, id |-> g,
                loaded |-> row, obj |-> obj]
        <3>1. qc = [pc |-> "commit", op |-> q.op, user |-> q.user, body |-> q.body,
                    id |-> q.id, loaded |-> q.loaded, obj |-> obj]
            BY <2>5, SetObj
        <3> HIDE DEF qc
        <3> QED BY <2>5, <3>1
    <2> HIDE DEF q, qc
    <2>7. CASE p.entrypoint_ids # NULL /\ Goto(r, q)
        <3>1. Faithful(q)
            BY <2>5, <2>7 DEF Faithful
        <3> QED BY <2>7, <3>1, GotoFaithful
    <2>8. CASE p.entrypoint_ids = NULL /\ ~ArchivedDraft(obj) /\ Goto(r, qc)
        <3>1. PatchedBy(qc, p)
            BY <2>3, <2>6, <2>8 DEF PatchedBy
        <3>2. Faithful(qc)
            BY <2>6, <3>1 DEF Faithful
        <3> QED BY <2>8, <3>2, GotoFaithful
    <2> QED BY <2>4, <2>7, <2>8
<1>5. ASSUME NEW u \in User, NEW d \in Doi, DeleteGarden(r, u, d) PROVE GardensFaithful'
    <2>1. PICK g \in ByDoi(gardens, d) :
            Goto(r, [Request("delete", u, NULL, g, gardens[g]) EXCEPT !.pc = "commit"])
        BY <1>5 DEF DeleteGarden
    <2> DEFINE q == [Request("delete", u, NULL, g, gardens[g]) EXCEPT !.pc = "commit"]
    <2>2. q = [pc |-> "commit", op |-> "delete", user |-> u, body |-> NULL, id |-> g,
               loaded |-> gardens[g], obj |-> NULL]
        BY DEF Request
    <2>3. Faithful(q)
        BY <2>2 DEF Faithful
    <2> HIDE DEF q
    <2> QED BY <2>1, <2>3, GotoFaithful DEF q
<1> QED BY <1>2, <1>3, <1>4, <1>5

LEMMA ResolveFaithful ==
    ASSUME GardenReqOK, GardensFaithful, NEW r \in GardenReq, ResolveDraft(r)
    PROVE  GardensFaithful'
<1> DEFINE q == greq[r]
           draft == ~Resolves(q.body.doi)
           b == [q.body EXCEPT !.doi_is_draft = draft]
           qn == [q EXCEPT !.pc = "collect", !.body = b]
<1>1. /\ q \in GardenRequest /\ Checked(q) /\ q.pc = "resolve" /\ q.op # "patch"
      /\ Faithful(q)
    BY Busy DEF ResolveDraft, At, Checked, GardensFaithful
<1>2. Goto(r, qn) \/ Finish(r)
    BY DEF ResolveDraft
<1>3. CASE Finish(r)
    BY <1>3, IdleFaithful, GotoFaithful DEF Finish
<1>4. CASE Goto(r, qn)
    <2>1. PICK a \in GardenBodies : Carries(q, a)
        BY <1>1 DEF Faithful
    <2>2. q.body \in GardenBody /\ Goto(r, qn)
        BY <1>1, <1>4 DEF Checked
    <2> HIDE DEF draft
    <2>3. /\ b.doi = q.body.doi /\ b.is_archived = q.body.is_archived
          /\ b.owner_identity_id = q.body.owner_identity_id
          /\ b.entrypoint_ids = q.body.entrypoint_ids
          /\ b.modal_function_ids = q.body.modal_function_ids /\ b.doi_is_draft = draft
        BY <2>2 DEF GardenBody
    <2>4. a.doi_is_draft \in {draft, NULL}
        BY <1>1, <2>1 DEF Faithful, Carries
    <2> HIDE DEF b
    <2>5. qn = [pc |-> "collect", op |-> q.op, user |-> q.user, body |-> b, id |-> q.id,
                loaded |-> q.loaded, obj |-> q.obj]
        BY <1>1, SetBody
    <2> HIDE DEF q, qn
    <2>6. Carries(qn, a)
        BY <2>1, <2>3, <2>4, <2>5 DEF Carries
    <2>7. Faithful(qn)
        BY <1>1, <2>5, <2>6 DEF Faithful
    <2> QED BY <2>2, <2>7, GotoFaithful
<1> QED BY <1>2, <1>3, <1>4

LEMMA CollectFaithful ==
    ASSUME TablesTypeOK, GardenReqOK, GardensFaithful, NEW r \in GardenReq, CollectMembers(r)
    PROVE  GardensFaithful'
<1> DEFINE q == greq[r]
           members == {e \in Live(entrypoints) : entrypoints[e].doi \in q.body.entrypoint_ids}
           obj == Collected(q, members)
           qn == [q EXCEPT !.pc = "commit", !.obj = obj]
<1>1. /\ q \in GardenRequest /\ Checked(q) /\ q.pc = "collect" /\ q.op # "delete"
      /\ Faithful(q)
    BY Busy DEF CollectMembers, At, Checked, GardensFaithful
<1>2. \/ /\ Cardinality(members) = Cardinality(q.body.entrypoint_ids)
         /\ q.op = "patch" => ~ArchivedDraft(obj)
         /\ Goto(r, qn)
      \/ Finish(r)
    BY DEF CollectMembers
<1>3. CASE Finish(r)
    BY <1>3, IdleFaithful, GotoFaithful DEF Finish
<1>4. CASE /\ Cardinality(members) = Cardinality(q.body.entrypoint_ids)
           /\ q.op = "patch" => ~ArchivedDraft(obj)
           /\ Goto(r, qn)
    <2>1. members \in SUBSET EntrypointId
        BY DEF TablesTypeOK, Live
    <2> HIDE DEF members
    <2>2. q.op = "patch" =>
            obj = [owner |-> q.loaded.owner, doi |-> q.loaded.doi,
                   doi_is_draft |-> Given(q.body.doi_is_draft, q.loaded.doi_is_draft),
                   is_archived |-> Given(q.body.is_archived, q.loaded.is_archived),
                   entrypoints |-> members, modal_functions |-> q.loaded.modal_functions]
        BY <1>1, <2>1, PatchedForm DEF Collected, Checked
    <2>3. q.op # "patch" =>
            obj = [owner |-> OwnerGiven(q), doi |-> q.body.doi,
                   doi_is_draft |-> q.body.doi_is_draft,
                   is_archived |-> q.body.is_archived, entrypoints |-> members,
                   modal_functions |-> q.body.modal_function_ids]
        BY DEF Collected
    <2>4. q.op # "patch" => OwnerGiven(q) = Given(q.body.owner_identity_id, q.user)
        BY <1>1 DEF Checked, DeletableBy, OwnerGiven, GardenRequest
    <2> HIDE DEF obj
    <2>5. qn = [pc |-> "commit", op |-> q.op, user |-> q.user, body |-> q.body, id |-> q.id,
                loaded |-> q.loaded, obj |-> obj]
        BY <1>1, SetObj
    <2> HIDE DEF q, qn
    <2>6. CASE q.op = "patch"
        <3>1. q.loaded.doi_is_draft /\ q.body.entrypoint_ids # NULL /\ q.body \in GardenPatches
            BY <1>1, <2>6 DEF Checked, Faithful
        <3>2. PatchedBy(qn, q.body)
            <4>1. qn.obj = obj /\ qn.loaded = q.loaded
                BY <2>5
            <4>2. obj.entrypoints = members
                BY <2>2, <2>6
            <4>3. obj = [owner |-> q.loaded.owner, doi |-> q.loaded.doi,
                         doi_is_draft |-> Given(q.body.doi_is_draft, q.loaded.doi_is_draft),
                         is_archived |-> Given(q.body.is_archived, q.loaded.is_archived),
                         entrypoints |-> obj.entrypoints,
                         modal_functions |-> q.loaded.modal_functions]
                BY <2>2, <2>6, <4>2
            <4>4. ~ArchivedDraft(obj)
                BY <1>4, <2>6
            <4>5. Cardinality(obj.entrypoints) = Cardinality(q.body.entrypoint_ids)
                BY <1>4, <4>2
            <4> QED BY <3>1, <4>1, <4>3, <4>4, <4>5 DEF PatchedBy
        <3>3. Faithful(qn)
            BY <2>5, <2>6, <3>1, <3>2 DEF Faithful
        <3> QED BY <1>4, <3>3, GotoFaithful
    <2>7. CASE q.op # "patch"
        <3>1. PICK b \in GardenBodies : Carries(q, b)
            BY <1>1, <2>7 DEF Faithful
        <3>2. MadeFrom(qn, b)
            BY <1>4, <2>3, <2>4, <2>5, <2>7, <3>1 DEF MadeFrom, Carries
        <3>3. Faithful(qn)
            BY <1>1, <2>5, <2>7, <3>2 DEF Faithful
        <3> QED BY <1>4, <3>3, GotoFaithful
    <2> QED BY <2>6, <2>7
<1> QED BY <1>2, <1>3, <1>4

LEMMA CommitsFaithful ==
    ASSUME GardenReqOK, GardensFaithful, NEW r \in GardenReq,
           CommitCreate(r) \/ CommitUpdate(r) \/ CommitDelete(r) \/ ArchiveGarden(r)
    PROVE  GardensFaithful'
<1>1. CASE Finish(r)
    BY <1>1, IdleFaithful, GotoFaithful DEF Finish
<1>2. CASE CommitUpdate(r)
    <2> DEFINE q == greq[r]
               hiding == [q EXCEPT !.pc = "hide"]
    <2>1. q \in GardenRequest
        BY <1>2, Busy DEF CommitUpdate, At
    <2>2. hiding.pc = "hide"
        BY <2>1 DEF GardenRequest
    <2>3. Goto(r, hiding) \/ Finish(r)
        BY <1>2 DEF CommitUpdate, Finish
    <2> HIDE DEF hiding
    <2>4. Faithful(hiding)
        BY <2>2 DEF Faithful
    <2> QED BY <1>1, <2>3, <2>4, GotoFaithful
<1> QED BY <1>1, <1>2 DEF CommitCreate, CommitDelete, ArchiveGarden

\* Every request in flight carries its payload, and commits what the payload asks for.
LEMMA GardenStepFaithful ==
    ASSUME TablesTypeOK, GardenReqOK, GardensFaithful, NEW r \in GardenReq, GardenStep(r)
    PROVE  GardensFaithful'
BY ArrivalsFaithful, ResolveFaithful, CollectFaithful, CommitsFaithful DEF GardenStep
=============================================================================
