--------------------------- MODULE ModalApps_proof ---------------------------
(***************************************************************************)
(* Proofs about ModalApps. What the tables may do while a request waits    *)
(* for its commit is one relation, Evolve; what a waiting request relies   *)
(* on, ReqOK, is kept by it, so each action needs to be looked at only     *)
(* for its own effect on the tables.                                       *)
(***************************************************************************)
EXTENDS ModalApps, TLAPS

\* Rows are created, changed and deleted, never re-created; an app keeps its
\* owner, a function its app and, once it has one, a DOI; a deployment stays.
Evolve ==
    /\ \A a \in AppId : apps[a] # NULL =>
        /\ apps'[a] # NULL
        /\ apps'[a] # GONE => apps[a] # GONE /\ apps'[a].owner = apps[a].owner
    /\ \A f \in FnId : functions[f] # NULL =>
        /\ functions'[f] # NULL
        /\ functions'[f] # GONE =>
            /\ functions[f] # GONE /\ functions'[f].app = functions[f].app
            /\ functions[f].doi # NULL => functions'[f].doi # NULL
    /\ \A k \in User \X AppName : deployed[k] # NULL => deployed'[k] # NULL

OwnApp(q, a, as) == as[a] # NULL /\ (as[a] # GONE => as[a].owner = q.user)

\* What the object a PATCH is about to flush has in common with the one it loaded.
PatchedFrom(loaded, p, obj) ==
    /\ loaded.is_archived => p.is_archived = FALSE
    /\ obj.is_archived /\ ~loaded.is_archived => loaded.doi # NULL
    /\ obj.doi # loaded.doi => obj.doi # NULL
    /\ loaded.doi # NULL =>
        obj.name = loaded.name /\ obj.doi = loaded.doi /\ obj.text = loaded.text

\* What a waiting request relies on, of the tables as, fs and the deployments ds.
ReqOK(q, as, fs, ds) ==
    /\ q.op = "add" => ds[<<q.user, q.body.app_name>>] # NULL
    /\ q.op = "delete" =>
        /\ OwnApp(q, q.id, as)
        /\ \A f \in q.children :
            fs[f] # NULL /\ (fs[f] # GONE => fs[f].app = q.id)
    /\ q.op = "patch" =>
        /\ OwnApp(q, q.loaded.app, as)
        /\ PatchedFrom(q.loaded, q.body, q.obj)
        /\ fs[q.id] # NULL
        /\ fs[q.id] # GONE =>
            /\ fs[q.id].app = q.loaded.app
            /\ q.loaded.doi # NULL => fs[q.id].doi # NULL

Now(q) == ReqOK(q, apps, functions, deployed)
Then(q) == ReqOK(q, apps', functions', deployed')

RequestsOK == \A r \in ModalReq : mreq[r] # MIdle => Now(mreq[r])

DeployedNamed == \A k \in User \X AppName : deployed[k] # NULL => Import[deployed[k]].app = k[2]

TablesOK == FunctionIntegrity /\ AppsDeployed /\ DeployedNamed

Inv == TypeOK /\ TablesOK /\ RequestsOK

-----------------------------------------------------------------------------
LEMMA Rows ==
    ASSUME TypeOK
    PROVE  /\ \A a \in Live(apps) : a \in AppId /\ apps[a] \in AppRow
           /\ \A f \in Live(functions) : f \in FnId /\ functions[f] \in FunctionRow
           /\ \A a \in AppId : a \notin Live(apps) <=> apps[a] \in {NULL, GONE}
           /\ \A f \in FnId : f \notin Live(functions) <=> functions[f] \in {NULL, GONE}
BY DEF TypeOK, Live

LEMMA PendingTyped ==
    ASSUME TypeOK, NEW r \in ModalReq
    PROVE  /\ Pending(r, "add") => mreq[r] \in
                [pc : {"commit"}, op : {"add"}, user : User, body : AppPayload]
           /\ Pending(r, "delete") => mreq[r] \in
                [pc : {"commit"}, op : {"delete"}, user : User, id : AppId,
                 children : SUBSET FnId]
           /\ Pending(r, "patch") => mreq[r] \in
                [pc : {"commit"}, op : {"patch"}, user : User, body : FunctionPatch,
                 id : FnId, loaded : FunctionRow, obj : FunctionRow]
BY DEF TypeOK, Pending, ModalRequest, MIdle

LEMMA PendingOK ==
    ASSUME RequestsOK, NEW r \in ModalReq, NEW op, Pending(r, op)
    PROVE  Now(mreq[r]) /\ mreq[r] # MIdle
BY DEF RequestsOK, Pending, MIdle

\* A waiting request is not disturbed by what the others do.
LEMMA EvolveKeeps ==
    ASSUME TypeOK, Evolve, NEW q \in ModalRequest, Now(q)
    PROVE  Then(q)
<1> USE DEF Now, Then
<1>1. CASE q.op = "add"
    <2>1. q.user \in User /\ q.body \in AppPayload
        BY <1>1 DEF ModalRequest
    <2>2. <<q.user, q.body.app_name>> \in User \X AppName
        BY <2>1 DEF AppPayload
    <2> QED BY <1>1, <2>2 DEF ReqOK, Evolve
<1>2. CASE q.op = "delete"
    <2>1. q.id \in AppId /\ q.children \subseteq FnId
        BY <1>2 DEF ModalRequest
    <2> QED BY <1>2, <2>1 DEF ReqOK, Evolve, OwnApp
<1>3. CASE q.op = "patch"
    <2>1. q.id \in FnId /\ q.loaded.app \in AppId
        BY <1>3 DEF ModalRequest, FunctionRow
    <2>2. OwnApp(q, q.loaded.app, apps')
        BY <1>3, <2>1 DEF ReqOK, Evolve, OwnApp
    <2> QED BY <1>3, <2>1, <2>2 DEF ReqOK, Evolve
<1> QED BY <1>1, <1>2, <1>3 DEF ReqOK

\* A step that moves one request.
LEMMA MoveKeeps ==
    ASSUME TypeOK, RequestsOK, Evolve, NEW r \in ModalReq,
           NEW q \in ModalRequest \cup {MIdle}, Goto(r, q), q # MIdle => Then(q)
    PROVE  RequestsOK'
<1> SUFFICES ASSUME NEW s \in ModalReq, mreq'[s] # MIdle PROVE Then(mreq'[s])
    BY DEF RequestsOK, Now, Then
<1>1. CASE s = r
    BY <1>1 DEF Goto, TypeOK
<1>2. CASE s # r
    <2>1. mreq'[s] = mreq[s] /\ mreq[s] \in ModalRequest
        BY <1>2 DEF Goto, TypeOK
    <2>2. Now(mreq[s])
        BY <2>1 DEF RequestsOK
    <2> QED BY <2>1, <2>2, EvolveKeeps
<1> QED BY <1>1, <1>2

\* A step that leaves the tables alone.
LEMMA QuietTables ==
    ASSUME TypeOK, TablesOK, UNCHANGED <<apps, functions, referred, deployed>>
    PROVE  Evolve /\ TablesOK'
BY DEF Evolve, TablesOK, FunctionIntegrity, AppsDeployed, DeployedNamed, Live

LEMMA GotoTyped ==
    ASSUME TypeOK, NEW r \in ModalReq, NEW q \in ModalRequest \cup {MIdle}, Goto(r, q)
    PROVE  mreq' \in [ModalReq -> ModalRequest \cup {MIdle}]
BY DEF TypeOK, Goto

-----------------------------------------------------------------------------
(* One lemma per action *)

LEMMA DeployAppKeeps ==
    ASSUME Inv, NEW r \in ModalReq, NEW u \in User, NEW b \in AppPayloads, DeployApp(r, u, b)
    PROVE  Inv'
<1> DEFINE q == [pc |-> "commit", op |-> "add", user |-> u, body |-> b]
           k == <<u, b.app_name>>
<1>1. b \in AppPayload /\ b.file \in Source /\ k \in User \X AppName
    BY ModalAppsAssumption DEF AppPayload
<1>2. /\ deployed' = [deployed EXCEPT ![k] = b.file]
      /\ UNCHANGED <<apps, functions, referred>> /\ (Goto(r, q) \/ UNCHANGED mreq)
      /\ Import[b.file].app = b.app_name
    BY DEF DeployApp, Deploy, FileMatches
<1>3. deployed \in [User \X AppName -> Source \cup {NULL}]
    BY DEF Inv, TypeOK
<1>4. q \in ModalRequest
    BY <1>1 DEF ModalRequest
<1>5. deployed'[k] = b.file /\ b.file # NULL
    BY <1>1, <1>2, <1>3, ModalAppsAssumption
<1>6. \A l \in User \X AppName : l # k => deployed'[l] = deployed[l]
    BY <1>2, <1>3
<1>7. Evolve
    BY <1>2, <1>5, <1>6 DEF Evolve
<1>8. DeployedNamed'
    <2> SUFFICES ASSUME NEW l \in User \X AppName, deployed'[l] # NULL
                 PROVE  Import[deployed'[l]].app = l[2]
        BY DEF DeployedNamed
    <2>1. CASE l = k
        BY <2>1, <1>2, <1>5
    <2>2. CASE l # k
        BY <2>2, <1>6 DEF Inv, TablesOK, DeployedNamed
    <2> QED BY <2>1, <2>2
<1>9. AppsDeployed'
    <2> SUFFICES ASSUME NEW a \in Live(apps)
                 PROVE  /\ deployed'[<<apps[a].owner, apps[a].name>>] # NULL
                        /\ Import[deployed'[<<apps[a].owner, apps[a].name>>]].app
                            = apps[a].name
        BY <1>2 DEF AppsDeployed, Live
    <2>1. apps[a] \in AppRow
        BY Rows DEF Inv
    <2>2. <<apps[a].owner, apps[a].name>> \in User \X AppName
        BY <2>1 DEF AppRow
    <2>3. deployed[<<apps[a].owner, apps[a].name>>] # NULL
        BY DEF Inv, TablesOK, AppsDeployed
    <2> QED BY <2>2, <2>3, <1>7, <1>8 DEF Evolve, DeployedNamed
<1>10. TablesOK'
    BY <1>2, <1>8, <1>9 DEF Inv, TablesOK, FunctionIntegrity, Live
<1>11. TypeOK'
    <2>1. deployed' \in [User \X AppName -> Source \cup {NULL}]
        BY <1>1, <1>2, <1>3
    <2>2. mreq' \in [ModalReq -> ModalRequest \cup {MIdle}]
        BY <1>2, <1>4, GotoTyped DEF Inv, TypeOK
    <2> QED BY <1>2, <2>1, <2>2 DEF Inv, TypeOK
<1>12. Then(q)
    BY <1>5 DEF Then, ReqOK
<1>13. CASE Goto(r, q)
    <2>1. RequestsOK'
        BY <1>4, <1>7, <1>12, <1>13, MoveKeeps DEF Inv
    <2> QED BY <1>10, <1>11, <2>1 DEF Inv
<1>14. CASE UNCHANGED mreq
    <2>1. Goto(r, mreq[r]) /\ mreq[r] \in ModalRequest \cup {MIdle}
        BY <1>14 DEF Goto, Inv, TypeOK
    <2>2. mreq[r] # MIdle => Then(mreq[r])
        BY <2>1, <1>7, EvolveKeeps DEF Inv, RequestsOK
    <2>3. RequestsOK'
        BY <2>1, <2>2, <1>7, MoveKeeps DEF Inv
    <2> QED BY <1>10, <1>11, <2>3 DEF Inv
<1> QED BY <1>2, <1>13, <1>14

LEMMA DeleteAppKeeps ==
    ASSUME Inv, NEW r \in ModalReq, NEW u \in User, NEW a \in Live(apps), DeleteApp(r, u, a)
    PROVE  Inv'
<1> DEFINE q == [pc |-> "commit", op |-> "delete", user |-> u, id |-> a,
                 children |-> Children(a)]
<1>1. a \in AppId /\ apps[a] # NULL /\ apps[a].owner = u
    BY Rows DEF Inv, DeleteApp, Live
<1>2. Children(a) \subseteq FnId
    BY Rows DEF Inv, Children
<1>3. q \in ModalRequest
    BY <1>1, <1>2 DEF ModalRequest
<1>4. Goto(r, q) /\ UNCHANGED <<apps, functions, referred, deployed>>
    BY DEF DeleteApp
<1>5. Then(q)
    <2>1. \A f \in Children(a) : functions[f] # NULL /\ functions[f].app = a
        BY DEF Children, Live
    <2> QED BY <1>1, <1>4, <2>1 DEF Then, ReqOK, OwnApp
<1> HIDE DEF q
<1>6. Evolve /\ TablesOK'
    BY <1>4, QuietTables DEF Inv
<1>7. TypeOK'
    BY <1>3, <1>4, GotoTyped DEF Inv, TypeOK
<1>8. RequestsOK'
    BY <1>3, <1>4, <1>5, <1>6, MoveKeeps DEF Inv
<1> QED BY <1>6, <1>7, <1>8 DEF Inv

LEMMA UpdateFunctionKeeps ==
    ASSUME Inv, NEW r \in ModalReq, NEW u \in User, NEW f \in Live(functions),
           NEW p \in FunctionPatches, UpdateFunction(r, u, f, p)
    PROVE  Inv'
<1> DEFINE row == functions[f]
           obj == [app |-> row.app, name |-> Given(p.name, row.name),
                   doi |-> Given(p.doi, row.doi),
                   is_archived |-> Given(p.is_archived, row.is_archived),
                   text |-> Given(p.text, row.text)]
           q == [pc |-> "commit", op |-> "patch", user |-> u, body |-> p, id |-> f,
                 loaded |-> row, obj |-> obj]
<1>1. f \in FnId /\ row \in FunctionRow /\ row # NULL
    BY Rows DEF Inv, Live
<1>2. p \in FunctionPatch
    BY ModalAppsAssumption
<1>3. obj \in FunctionRow
    BY <1>1, <1>2, ModalAppsAssumption DEF FunctionRow, FunctionPatch, Given
<1>4. q \in ModalRequest
    BY <1>1, <1>2, <1>3 DEF ModalRequest
<1>5. Goto(r, q) /\ UNCHANGED <<apps, functions, referred, deployed>>
    BY DEF UpdateFunction
<1>6. Editable(row, p, u) /\ PatchAllowed(row, p)
    BY DEF UpdateFunction
<1>7. PatchedFrom(row, p, obj)
    <2>1. row.is_archived \in BOOLEAN /\ p.is_archived \in BOOLEAN \cup {NULL}
        BY <1>1, <1>2 DEF FunctionRow, FunctionPatch
    <2>2. obj.is_archived /\ ~row.is_archived => row.doi # NULL
        <3> SUFFICES ASSUME obj.is_archived, ~row.is_archived PROVE row.doi # NULL
            OBVIOUS
        <3>1. p.is_archived # NULL
            BY DEF Given
        <3>2. p.is_archived
            BY <3>1 DEF Given
        <3>3. p.is_archived = TRUE
            BY <2>1, <3>1, <3>2
        <3> QED BY <1>6, <3>3 DEF PatchAllowed
    <2>3. obj.doi # row.doi => obj.doi # NULL
        BY DEF Given
    <2>4. row.doi # NULL =>
            obj.name = row.name /\ obj.doi = row.doi /\ obj.text = row.text
        BY <1>6 DEF PatchAllowed, Given
    <2> QED BY <1>6, <2>2, <2>3, <2>4 DEF PatchedFrom, Editable
<1>8. OwnApp(q, row.app, apps)
    <2>1. apps[row.app] # NULL /\ apps[row.app].owner = u
        BY <1>6 DEF Inv, TablesOK, FunctionIntegrity, Live, Editable
    <2> QED BY <2>1 DEF OwnApp
<1>9. Then(q)
    BY <1>1, <1>5, <1>7, <1>8 DEF Then, ReqOK
<1> HIDE DEF q
<1>10. Evolve /\ TablesOK'
    BY <1>5, QuietTables DEF Inv
<1>11. TypeOK'
    BY <1>4, <1>5, GotoTyped DEF Inv, TypeOK
<1>12. RequestsOK'
    BY <1>4, <1>5, <1>9, <1>10, MoveKeeps DEF Inv
<1> QED BY <1>10, <1>11, <1>12 DEF Inv

\* A commit that fails, and one that succeeds, leave the slot idle.
LEMMA FinishKeeps ==
    ASSUME Inv, NEW r \in ModalReq, Finish(r), Evolve, TablesOK',
           apps' \in [AppId -> AppRow \cup {NULL, GONE}],
           functions' \in [FnId -> FunctionRow \cup {NULL, GONE}],
           UNCHANGED <<deployed, referred>>
    PROVE  Inv'
<1>1. TypeOK'
    BY GotoTyped DEF Inv, TypeOK, Finish
<1>2. RequestsOK'
    BY MoveKeeps DEF Inv, Finish
<1> QED BY <1>1, <1>2 DEF Inv

LEMMA CommitDeleteKeeps ==
    ASSUME Inv, NEW r \in ModalReq, CommitDelete(r)
    PROVE  Inv'
<1> DEFINE q == mreq[r]
<1>1. Finish(r) /\ UNCHANGED <<deployed, referred>> /\ Pending(r, "delete")
    BY DEF CommitDelete
<1>2. q.id \in AppId /\ q.children \subseteq FnId /\ q.op = "delete"
    BY <1>1, PendingTyped DEF Inv
<1>3. CASE UNCHANGED <<apps, functions>>
    BY <1>1, <1>3, QuietTables, FinishKeeps DEF Inv, TypeOK
<1>4. CASE /\ CascadeAllowed(q)
           /\ apps' = [apps EXCEPT ![q.id] = GONE]
           /\ functions' = [f \in FnId |-> IF f \in q.children THEN GONE ELSE functions[f]]
    <2>1. /\ apps' \in [AppId -> AppRow \cup {NULL, GONE}]
          /\ functions' \in [FnId -> FunctionRow \cup {NULL, GONE}]
        BY <1>4 DEF Inv, TypeOK
    <2>2. \A a \in AppId : apps'[a] = IF a = q.id THEN GONE ELSE apps[a]
        BY <1>4 DEF Inv, TypeOK
    <2>3. \A f \in FnId : functions'[f] = IF f \in q.children THEN GONE ELSE functions[f]
        BY <1>4
    <2>4. Evolve
        BY <1>1, <2>2, <2>3, ModalAppsAssumption DEF Evolve
    <2>5. Live(apps)' = Live(apps) \ {q.id} /\ Live(functions)' = Live(functions) \ q.children
        BY <1>2, <2>1, <2>2, <2>3, Rows DEF Live, Inv, TypeOK
    <2>6. FunctionIntegrity'
        <3>1. \A f \in Live(functions)' :
                /\ f \in FnId /\ f \in Live(functions) /\ functions'[f] = functions[f]
                /\ functions[f].app # q.id
            BY <1>4, <2>3, <2>5, Rows DEF Inv, CascadeAllowed, Children
        <3>2. \A f \in Live(functions)' : functions'[f].app \in Live(apps)'
            BY <2>5, <3>1 DEF Inv, TablesOK, FunctionIntegrity
        <3>3. referred' \subseteq Live(functions)'
            BY <1>1, <1>4, <2>5 DEF Inv, TablesOK, FunctionIntegrity, CascadeAllowed
        <3> QED BY <3>1, <3>2, <3>3 DEF Inv, TablesOK, FunctionIntegrity
    <2>7. AppsDeployed'
        BY <1>1, <2>2, <2>5, Rows DEF Inv, TablesOK, AppsDeployed
    <2>8. DeployedNamed'
        BY <1>1 DEF Inv, TablesOK, DeployedNamed
    <2> QED BY <1>1, <2>1, <2>4, <2>6, <2>7, <2>8, FinishKeeps DEF TablesOK
<1> QED BY <1>3, <1>4 DEF CommitDelete

LEMMA CommitPatchKeeps ==
    ASSUME Inv, NEW r \in ModalReq, CommitPatch(r)
    PROVE  Inv'
<1> DEFINE q == mreq[r]
           after == FlushedFunction(functions[q.id], q.loaded, q.obj)
<1>1. /\ Finish(r) /\ UNCHANGED <<apps, deployed, referred>> /\ Pending(r, "patch")
    BY DEF CommitPatch
<1>2. /\ q.id \in FnId /\ q.loaded \in FunctionRow /\ q.obj \in FunctionRow
      /\ q.op = "patch"
    BY <1>1, PendingTyped DEF Inv
<1>3. CASE UNCHANGED functions
    BY <1>1, <1>3, QuietTables, FinishKeeps DEF Inv, TypeOK
<1>4. CASE /\ q.id \in Live(functions) /\ DoiFree(q)
           /\ functions' = [functions EXCEPT ![q.id] = FlushedFunction(@, q.loaded, q.obj)]
    <2>1. functions[q.id] \in FunctionRow
        BY <1>4, Rows DEF Inv
    <2>2. after \in FunctionRow /\ after.app = functions[q.id].app
        BY <1>2, <2>1 DEF FlushedFunction, FlushColumn, FunctionRow
    <2>3. \A f \in FnId : functions'[f] = IF f = q.id THEN after ELSE functions[f]
        BY <1>4 DEF Inv, TypeOK
    <2>4. functions' \in [FnId -> FunctionRow \cup {NULL, GONE}]
        BY <1>4, <2>2 DEF Inv, TypeOK
    <2>5. after.doi = (IF q.obj.doi = q.loaded.doi THEN functions[q.id].doi ELSE q.obj.doi)
        BY DEF FlushedFunction, FlushColumn
    <2>6. q.obj.doi # q.loaded.doi => q.obj.doi # NULL
        BY <1>1, <1>2, PendingOK DEF Inv, Now, ReqOK, PatchedFrom
    <2>7. after # NULL /\ after # GONE
        BY <2>2, ModalAppsAssumption
    <2> HIDE DEF after, q
    <2>8. Evolve
        BY <1>1, <1>4, <2>2, <2>3, <2>5, <2>6, <2>7 DEF Evolve, Live
    <2>9. Live(functions)' = Live(functions) /\ Live(apps)' = Live(apps)
        BY <1>1, <1>4, <2>3, <2>4, <2>7 DEF Live, Inv, TypeOK
    <2>10. FunctionIntegrity'
        <3>1. \A f \in Live(functions) : functions'[f].app \in Live(apps)
            BY <1>4, <2>2, <2>3, Rows DEF Inv, TablesOK, FunctionIntegrity
        <3>2. \A f \in Live(functions) \ {q.id} :
                after.doi = functions[f].doi => after.doi = NULL
            BY <1>4, <2>5 DEF DoiFree, Inv, TablesOK, FunctionIntegrity
        <3>3. ASSUME NEW f \in Live(functions), NEW g \in Live(functions),
                     functions'[f].doi = functions'[g].doi
              PROVE  f = g \/ functions'[f].doi = NULL
            BY <2>3, <3>2, <3>3, Rows DEF Inv, TablesOK, FunctionIntegrity
        <3> QED BY <1>1, <2>9, <3>1, <3>3 DEF Inv, TablesOK, FunctionIntegrity
    <2>11. AppsDeployed' /\ DeployedNamed'
        BY <1>1 DEF Inv, TablesOK, AppsDeployed, DeployedNamed, Live
    <2> QED BY <1>1, <2>4, <2>8, <2>10, <2>11, FinishKeeps DEF TablesOK, Inv, TypeOK
<1> QED BY <1>3, <1>4 DEF CommitPatch

LEMMA RecordAppKeeps ==
    ASSUME Inv, NEW r \in ModalReq, RecordApp(r)
    PROVE  Inv'
<1> DEFINE q == mreq[r]
           u == q.user
           b == q.body
           data == b.modal_functions
<1>1. /\ Finish(r) /\ UNCHANGED <<deployed, referred>> /\ Pending(r, "add")
    BY DEF RecordApp
<1>2. u \in User /\ b \in AppPayload /\ q.op = "add"
    BY <1>1, PendingTyped DEF Inv
<1>3. CASE UNCHANGED <<apps, functions>>
    BY <1>1, <1>3, QuietTables, FinishKeeps DEF Inv, TypeOK
<1>4. ASSUME NEW a \in Fresh(apps), NEW key \in Injection(data, Fresh(functions)),
             DoisFree(data),
             apps' = [apps EXCEPT ![a] = [owner |-> u, name |-> b.app_name, file |-> b.file]],
             functions' = [f \in FnId |->
                IF \E d \in data : key[d] = f
                THEN LET d == CHOOSE d \in data : key[d] = f IN
                     [app |-> a, name |-> d.name, doi |-> d.doi,
                      is_archived |-> d.is_archived, text |-> d.text]
                ELSE functions[f]]
      PROVE  Inv'
    <2> DEFINE app == [owner |-> u, name |-> b.app_name, file |-> b.file]
               New == {f \in FnId : \E d \in data : key[d] = f}
               of(f) == CHOOSE d \in data : key[d] = f
               row(d) == [app |-> a, name |-> d.name, doi |-> d.doi,
                          is_archived |-> d.is_archived, text |-> d.text]
    <2>1. a \in AppId /\ apps[a] = NULL
        BY DEF Fresh, Inv, TypeOK
    <2>2. app \in AppRow /\ data \subseteq FunctionData
        BY <1>2 DEF AppRow, AppPayload
    <2>3. app \notin {NULL, GONE}
        BY <2>2, ModalAppsAssumption
    <2>4. \A f \in New : of(f) \in data /\ key[of(f)] = f
        OBVIOUS
    <2>5. \A f \in New : functions[f] = NULL
        <3>1. key \in [data -> Fresh(functions)]
            BY DEF Injection
        <3> QED BY <2>4, <3>1 DEF Fresh
    <2>6. \A d \in data : row(d) \in FunctionRow
        BY <2>1, <2>2 DEF FunctionData, FunctionRow
    <2>7. \A f \in FnId : functions'[f] = IF f \in New THEN row(of(f)) ELSE functions[f]
        BY <1>4
    <2>8. \A x \in AppId : apps'[x] = IF x = a THEN app ELSE apps[x]
        BY <1>4 DEF Inv, TypeOK
    <2>9. DOMAIN apps' = AppId /\ DOMAIN functions' = FnId
        BY <1>4 DEF Inv, TypeOK
    <2>10. DOMAIN apps = AppId /\ DOMAIN functions = FnId
        BY DEF Inv, TypeOK
    <2>11. \A f \in New : row(of(f)) \notin {NULL, GONE}
        BY <2>4, <2>6, ModalAppsAssumption
    <2>12. \A f \in New : row(of(f)).app = a /\ row(of(f)).doi = of(f).doi
        OBVIOUS
    <2>13. apps' \in [AppId -> AppRow \cup {NULL, GONE}]
        BY <1>4, <2>2 DEF Inv, TypeOK
    <2>14. functions' = [f \in FnId |-> functions'[f]]
        BY <1>4
    <2>15. New \subseteq FnId
        OBVIOUS
    <2> HIDE DEF app, New, of, row
    <2>16. functions' \in [FnId -> FunctionRow \cup {NULL, GONE}]
        <3>1. \A f \in FnId : functions'[f] \in FunctionRow \cup {NULL, GONE}
            BY <2>4, <2>6, <2>7 DEF Inv, TypeOK
        <3> QED BY <2>14, <3>1
    <2>17. Evolve
        BY <1>1, <2>1, <2>5, <2>7, <2>8 DEF Evolve
    <2>18. Live(apps)' = Live(apps) \cup {a} /\ a \notin Live(apps)
        BY <2>1, <2>3, <2>8, <2>9, <2>10 DEF Live
    <2>19. Live(functions)' = Live(functions) \cup New /\ New \cap Live(functions) = {}
        BY <2>5, <2>7, <2>9, <2>10, <2>11, <2>15 DEF Live
    <2>20. FunctionIntegrity'
        <3>1. \A f \in Live(functions) :
                f \in FnId /\ functions'[f] = functions[f]
            BY <2>7, <2>19, Rows DEF Inv
        <3>2. \A f \in New : functions'[f] = row(of(f))
            BY <2>7, <2>15
        <3>3. \A f \in Live(functions)' : functions'[f].app \in Live(apps)'
            BY <2>12, <2>18, <2>19, <3>1, <3>2 DEF Inv, TablesOK, FunctionIntegrity
        <3>4. ASSUME NEW f \in Live(functions)', NEW g \in Live(functions)',
                     functions'[f].doi = functions'[g].doi, functions'[f].doi # NULL
              PROVE  f = g
            <4>1. CASE f \in New /\ g \in New
                <5>1. of(f).doi = of(g).doi /\ of(f).doi # NULL
                    BY <3>2, <3>4, <4>1, <2>12
                <5>2. of(f) = of(g)
                    BY <1>4, <2>4, <4>1, <5>1 DEF DoisFree
                <5> QED BY <2>4, <4>1, <5>2
            <4>2. CASE f \in New /\ g \in Live(functions)
                <5>1. of(f).doi # NULL /\ functions[g].doi = of(f).doi
                    BY <2>12, <3>1, <3>2, <3>4, <4>2
                <5> QED BY <1>4, <2>4, <4>2, <5>1 DEF DoisFree
            <4>3. CASE f \in Live(functions) /\ g \in New
                <5>1. of(g).doi # NULL /\ functions[f].doi = of(g).doi
                    BY <2>12, <3>1, <3>2, <3>4, <4>3
                <5> QED BY <1>4, <2>4, <4>3, <5>1 DEF DoisFree
            <4>4. CASE f \in Live(functions) /\ g \in Live(functions)
                BY <3>1, <3>4, <4>4 DEF Inv, TablesOK, FunctionIntegrity
            <4> QED BY <2>19, <4>1, <4>2, <4>3, <4>4
        <3>5. referred' \subseteq Live(functions)'
            BY <1>1, <2>19 DEF Inv, TablesOK, FunctionIntegrity
        <3> QED BY <3>3, <3>4, <3>5 DEF FunctionIntegrity
    <2>21. DeployedNamed'
        BY <1>1 DEF Inv, TablesOK, DeployedNamed
    <2>22. AppsDeployed'
        <3>1. <<u, b.app_name>> \in User \X AppName
            BY <1>2 DEF AppPayload
        <3>2. deployed[<<u, b.app_name>>] # NULL
            BY <1>1, <1>2, PendingOK DEF Inv, Now, ReqOK
        <3>3. Import[deployed[<<u, b.app_name>>]].app = b.app_name
            BY <3>1, <3>2 DEF Inv, TablesOK, DeployedNamed
        <3>4. apps'[a].owner = u /\ apps'[a].name = b.app_name
            BY <2>1, <2>8 DEF app
        <3>5. \A x \in Live(apps) : apps'[x] = apps[x]
            BY <2>8, <2>18, Rows DEF Inv
        <3> QED BY <1>1, <2>18, <3>2, <3>3, <3>4, <3>5 DEF Inv, TablesOK, AppsDeployed
    <2> QED BY <1>1, <2>13, <2>16, <2>17, <2>20, <2>21, <2>22, FinishKeeps DEF TablesOK
<1> QED BY <1>3, <1>4 DEF RecordApp

LEMMA OthersKeep ==
    ASSUME Inv,
           \/ \E f \in Live(functions) : Refer(f)
           \/ \E f \in referred : Release(f)
           \/ Restart
           \/ UNCHANGED vars
    PROVE  Inv'
<1>1. /\ UNCHANGED <<apps, functions, deployed>>
      /\ referred' \subseteq Live(functions) \cup referred
      /\ mreq' = mreq \/ mreq' = [r \in ModalReq |-> MIdle]
    BY DEF Refer, Release, Restart, vars
<1>2. referred' \subseteq Live(functions) /\ Live(functions) \subseteq FnId
    BY <1>1, Rows DEF Inv, TablesOK, FunctionIntegrity
<1>3. TypeOK'
    BY <1>1, <1>2 DEF Inv, TypeOK
<1>4. TablesOK'
    BY <1>1, <1>2 DEF Inv, TablesOK, FunctionIntegrity, AppsDeployed, DeployedNamed, Live
<1>5. RequestsOK'
    BY <1>1 DEF Inv, RequestsOK, Now
<1> QED BY <1>3, <1>4, <1>5 DEF Inv

-----------------------------------------------------------------------------
LEMMA InvInit == Init => Inv
<1> SUFFICES ASSUME Init PROVE Inv
    OBVIOUS
<1>1. Live(apps) = {} /\ Live(functions) = {}
    BY DEF Init, Live
<1>2. TypeOK
    BY DEF Init, TypeOK
<1>3. TablesOK
    BY <1>1 DEF Init, TablesOK, FunctionIntegrity, AppsDeployed, DeployedNamed
<1> QED BY <1>2, <1>3 DEF Init, Inv, RequestsOK

LEMMA InvNext == Inv /\ [Next]_vars => Inv'
BY DeployAppKeeps, RecordAppKeeps, DeleteAppKeeps, CommitDeleteKeeps,
   UpdateFunctionKeeps, CommitPatchKeeps, OthersKeep
   DEF Next

LEMMA InvAlways == Spec => []Inv
BY InvInit, InvNext, PTL DEF Spec

\* Types hold, whatever overlaps, fails or restarts.
THEOREM TypesKept == Spec => []TypeOK
<1>1. Inv => TypeOK
    BY DEF Inv, TablesOK
<1> QED BY <1>1, InvAlways, PTL

\* Functions belong to live apps, gardens and invocations refer to live functions,
\* and a DOI is one function's, although apps are deleted with their functions
\* while others come to refer to these.
THEOREM ModalTablesSound == Spec => []FunctionIntegrity
<1>1. Inv => FunctionIntegrity
    BY DEF Inv, TablesOK
<1> QED BY <1>1, InvAlways, PTL

\* No row without a deployment: a live app is deployed under its own name, although
\* the deployment and the row are two steps that other requests and restarts
\* come between.
THEOREM LiveAppsDeployed == Spec => []AppsDeployed
<1>1. Inv => AppsDeployed
    BY DEF Inv, TablesOK
<1> QED BY <1>1, InvAlways, PTL

-----------------------------------------------------------------------------
(* Who changes a function *)

FunctionChange(r, f) ==
    \/ /\ CommitDelete(r) /\ Pending(r, "delete")
       /\ f \in mreq[r].children /\ functions'[f] = GONE
    \/ /\ CommitPatch(r) /\ Pending(r, "patch") /\ mreq[r].id = f
       /\ functions'[f] = FlushedFunction(functions[f], mreq[r].loaded, mreq[r].obj)

\* A function's row changes only in the commits of a DELETE and of a PATCH.
LEMMA FunctionChanges ==
    ASSUME Inv, Next, NEW f \in Live(functions), functions'[f] # functions[f]
    PROVE  \E r \in ModalReq : FunctionChange(r, f)
<1>1. f \in FnId /\ functions[f] # NULL
    BY Rows DEF Inv, Live
<1>2. ~UNCHANGED functions
    OBVIOUS
<1>3. PICK r \in ModalReq : RecordApp(r) \/ CommitDelete(r) \/ CommitPatch(r)
    BY <1>2 DEF Next, DeployApp, Deploy, DeleteApp, UpdateFunction, Refer, Release, Restart
<1>4. ~RecordApp(r)
    <2> SUFFICES ASSUME RecordApp(r) PROVE FALSE
        OBVIOUS
    <2> DEFINE data == mreq[r].body.modal_functions
    <2>1. PICK key \in Injection(data, Fresh(functions)) :
            (\A d \in data : key[d] # f) => functions'[f] = functions[f]
        BY <1>1, <1>2 DEF RecordApp
    <2>2. \A d \in data : key[d] # f
        BY <1>1 DEF Injection, Fresh
    <2> QED BY <2>1, <2>2
<1>5. CASE CommitDelete(r)
    BY <1>1, <1>2, <1>5 DEF CommitDelete, FunctionChange
<1>6. CASE CommitPatch(r)
    <2>1. /\ Pending(r, "patch")
          /\ functions' = [functions EXCEPT ![mreq[r].id] =
                FlushedFunction(@, mreq[r].loaded, mreq[r].obj)]
        BY <1>2, <1>6 DEF CommitPatch
    <2>2. mreq[r].id = f
        BY <1>1, <2>1 DEF Inv, TypeOK
    <2>3. functions'[f] = FlushedFunction(functions[f], mreq[r].loaded, mreq[r].obj)
        BY <1>1, <2>1, <2>2 DEF Inv, TypeOK
    <2> QED BY <1>6, <2>1, <2>2, <2>3 DEF FunctionChange
<1> QED BY <1>3, <1>4, <1>5, <1>6

\* What a PATCH's commit makes of a row.
LEMMA PatchEffect ==
    ASSUME Inv, NEW r \in ModalReq, NEW f \in Live(functions), Pending(r, "patch"),
           mreq[r].id = f
    PROVE  LET q == mreq[r]
               before == functions[f]
               after == FlushedFunction(before, q.loaded, q.obj)
           IN  /\ after \in FunctionRow /\ after.app = before.app
               /\ apps[before.app].owner = q.user
               /\ q.loaded.is_archived => q.body.is_archived = FALSE
               /\ q.loaded.doi # NULL =>
                    /\ after.name = before.name /\ after.doi = before.doi
                    /\ after.text = before.text
               /\ before.doi # NULL => after.doi # NULL
               /\ after.doi = NULL /\ after.is_archived => before.is_archived
<1> DEFINE q == mreq[r]
           before == functions[f]
           after == FlushedFunction(before, q.loaded, q.obj)
<1>1. /\ q.loaded \in FunctionRow /\ q.obj \in FunctionRow /\ q.op = "patch"
      /\ before \in FunctionRow /\ before \notin {NULL, GONE}
    BY PendingTyped, Rows DEF Inv, Live
<1>2. /\ PatchedFrom(q.loaded, q.body, q.obj) /\ OwnApp(q, q.loaded.app, apps)
      /\ before.app = q.loaded.app /\ (q.loaded.doi # NULL => before.doi # NULL)
    BY <1>1, PendingOK DEF Inv, Now, ReqOK
<1>3. before.app \in Live(apps)
    BY DEF Inv, TablesOK, FunctionIntegrity
<1>4. apps[before.app].owner = q.user
    BY <1>2, <1>3 DEF OwnApp, Live
<1>5. /\ after.app = before.app
      /\ after.name = FlushColumn(before.name, q.loaded.name, q.obj.name)
      /\ after.doi = FlushColumn(before.doi, q.loaded.doi, q.obj.doi)
      /\ after.is_archived
            = FlushColumn(before.is_archived, q.loaded.is_archived, q.obj.is_archived)
      /\ after.text = FlushColumn(before.text, q.loaded.text, q.obj.text)
    BY DEF FlushedFunction
<1>6. after \in FunctionRow
    BY <1>1 DEF FlushedFunction, FlushColumn, FunctionRow
<1> HIDE DEF q, before, after
<1>7. q.loaded.doi # NULL =>
        after.name = before.name /\ after.doi = before.doi /\ after.text = before.text
    BY <1>2, <1>5 DEF PatchedFrom, FlushColumn
<1>8. before.doi # NULL => after.doi # NULL
    BY <1>2, <1>5 DEF PatchedFrom, FlushColumn
<1>9. ASSUME after.doi = NULL, after.is_archived PROVE before.is_archived
    <2>1. q.loaded.doi = NULL
        BY <1>2, <1>8, <1>9
    <2>2. ~q.obj.is_archived \/ q.loaded.is_archived
        BY <1>2, <2>1 DEF PatchedFrom
    <2>3. q.obj.is_archived = q.loaded.is_archived \/ after.is_archived = q.obj.is_archived
        BY <1>5 DEF FlushColumn
    <2>4. /\ q.obj.is_archived \in BOOLEAN /\ q.loaded.is_archived \in BOOLEAN
          /\ before.is_archived \in BOOLEAN
        BY <1>1 DEF FunctionRow
    <2>5. CASE q.obj.is_archived = q.loaded.is_archived
        BY <1>5, <1>9, <2>5 DEF FlushColumn
    <2>6. CASE q.obj.is_archived # q.loaded.is_archived
        <3>1. ~q.obj.is_archived
            BY <2>2, <2>4, <2>6
        <3> QED BY <1>9, <2>3, <2>6, <3>1
    <2> QED BY <2>5, <2>6
<1> QED BY <1>2, <1>4, <1>5, <1>6, <1>7, <1>8, <1>9 DEF PatchedFrom, q, before, after

\* A function's row changes only in a commit of the user who owns its app, a
\* DELETE's or a PATCH's that was allowed on the row it loaded.
THEOREM FunctionsAuthorised == Spec => FunctionWritesAuthorised
<1> DEFINE Authorised(f) ==
            \E r \in ModalReq :
                /\ mreq[r].pc = "commit" /\ mreq[r].op # "add"
                /\ MayWriteFunction(mreq[r], f, functions[f], functions'[f])
           Step == \A f \in Live(functions) : functions'[f] # functions[f] => Authorised(f)
<1>1. Inv /\ [Next]_vars => Step
    <2> SUFFICES ASSUME Inv, [Next]_vars, NEW f \in Live(functions),
                        functions'[f] # functions[f]
                 PROVE  Authorised(f)
        OBVIOUS
    <2>1. PICK r \in ModalReq : FunctionChange(r, f)
        BY FunctionChanges DEF vars
    <2>2. functions[f].app \in Live(apps) /\ functions[f] \in FunctionRow
        BY Rows DEF Inv, TablesOK, FunctionIntegrity
    <2>3. CASE Pending(r, "delete") /\ f \in mreq[r].children /\ functions'[f] = GONE
        <3>1. mreq[r].op = "delete" /\ mreq[r].pc = "commit"
            BY <2>3 DEF Pending
        <3>2. functions[f].app = mreq[r].id /\ OwnApp(mreq[r], mreq[r].id, apps)
            BY <2>3, <3>1, PendingOK DEF Inv, Now, ReqOK, Live
        <3>3. apps[functions[f].app].owner = mreq[r].user
            BY <2>2, <3>2 DEF OwnApp, Live
        <3>4. MayWriteFunction(mreq[r], f, functions[f], functions'[f])
            BY <2>3, <3>1, <3>2, <3>3 DEF MayWriteFunction
        <3> QED BY <3>1, <3>4
    <2>4. CASE /\ Pending(r, "patch") /\ mreq[r].id = f
               /\ functions'[f] = FlushedFunction(functions[f], mreq[r].loaded, mreq[r].obj)
        <3>1. mreq[r].op = "patch" /\ mreq[r].pc = "commit"
            BY <2>4 DEF Pending
        <3>2. functions'[f] # GONE
            <4>1. functions'[f] \in FunctionRow
                BY <2>4, PatchEffect
            <4> QED BY <4>1, ModalAppsAssumption
        <3>3. MayWriteFunction(mreq[r], f, functions[f], functions'[f])
            BY <2>4, <3>1, <3>2, PatchEffect DEF MayWriteFunction
        <3> QED BY <3>1, <3>3
    <2> QED BY <2>1, <2>3, <2>4 DEF FunctionChange
<1>2. Step <=> \A f \in Live(functions) : functions'[f] # functions[f] =>
        \E r \in ModalReq :
            /\ mreq[r].pc = "commit" /\ mreq[r].op # "add"
            /\ MayWriteFunction(mreq[r], f, functions[f], functions'[f])
    OBVIOUS
<1> HIDE DEF Step
<1> QED BY <1>1, <1>2, InvAlways, PTL DEF Spec, FunctionWritesAuthorised

\* No draft is archived and no DOI is taken away, although archiving and
\* publishing PATCHes of one function overlap: a request that loaded a published
\* function finds it published at its commit (part of ReqOK).
THEOREM NoDraftArchived == Spec => DraftsNotArchived
<1> DEFINE Step == \A f \in Live(functions) : functions'[f] # GONE =>
            /\ functions[f].doi # NULL => functions'[f].doi # NULL
            /\ functions'[f].doi = NULL /\ functions'[f].is_archived
                => functions[f].is_archived
<1>1. Inv /\ [Next]_vars => Step
    <2> SUFFICES ASSUME Inv, [Next]_vars, NEW f \in Live(functions), functions'[f] # GONE
                 PROVE  /\ functions[f].doi # NULL => functions'[f].doi # NULL
                        /\ functions'[f].doi = NULL /\ functions'[f].is_archived
                            => functions[f].is_archived
        OBVIOUS
    <2>1. CASE functions'[f] = functions[f]
        BY <2>1
    <2>2. CASE functions'[f] # functions[f]
        <3>1. PICK r \in ModalReq : FunctionChange(r, f)
            BY <2>2, FunctionChanges DEF vars
        <3> QED BY <3>1, PatchEffect DEF FunctionChange
    <2> QED BY <2>1, <2>2
<1>2. Step <=> \A f \in Live(functions) : functions'[f] # GONE =>
        /\ functions[f].doi # NULL => functions'[f].doi # NULL
        /\ functions'[f].doi = NULL /\ functions'[f].is_archived
            => functions[f].is_archived
    OBVIOUS
<1> HIDE DEF Step
<1> QED BY <1>1, <1>2, InvAlways, PTL DEF Spec, DraftsNotArchived
=============================================================================
