------------------------------ MODULE ModalApps ------------------------------
(***************************************************************************)
(* Modal apps and their functions (api/routes/modal/modal_apps.py and      *)
(* modal_functions.py): an app is deployed to Modal before its row is      *)
(* committed, a function is published by patching its DOI, and an app is   *)
(* deleted with its functions, to which gardens and invocations refer.     *)
(*                                                                         *)
(* Validation and deployment are blocking calls, so no other request of    *)
(* the process runs between the arrival of a POST and its commit's first   *)
(* await. The other routes go from their load to their commit.             *)
(***************************************************************************)
EXTENDS Sessions, Integers, FiniteSets, FiniteSetsExt, Functions

CONSTANTS
    User,               \* members of the Modal VIP group
    AppName, FnName,
    Source,             \* Python files a user submits
    Import,             \* the app name and function names Modal finds in a file
    Text,               \* function_text values
    Doi,
    AppId, FnId,        \* primary keys
    ModalReq,           \* requests in flight at once
    AppPayloads,        \* ModalAppCreateRequest payloads
    FunctionPatches     \* ModalFunctionPatchRequest payloads

FunctionData == [name : FnName, doi : Doi \cup {NULL}, is_archived : BOOLEAN, text : Text]

AppPayload ==
    [app_name : AppName, file : Source, modal_function_names : SUBSET FnName,
     modal_functions : SUBSET FunctionData]

FunctionPatch ==
    [name : FnName \cup {NULL}, doi : Doi \cup {NULL},
     is_archived : BOOLEAN \cup {NULL}, text : Text \cup {NULL}]

AppRow == [owner : User, name : AppName, file : Source]

FunctionRow ==
    [app : AppId, name : FnName, doi : Doi \cup {NULL}, is_archived : BOOLEAN, text : Text]

ASSUME ModalAppsAssumption ==
    /\ Import \in [Source -> [app : AppName, functions : SUBSET FnName]]
    /\ AppPayloads \subseteq AppPayload
    /\ FunctionPatches \subseteq FunctionPatch
    /\ NULL \notin AppRow \cup FunctionRow \cup Source
    /\ NULL \notin Doi \cup FnName \cup Text \cup BOOLEAN \cup AppId
    /\ GONE \notin AppRow \cup FunctionRow \cup {NULL}

VARIABLES
    apps,        \* table modal_apps
    functions,   \* table modal_functions
    deployed,    \* on Modal: the file deployed under "<identity>-<app name>"
    referred,    \* functions that a garden lists or an invocation names
    mreq

vars == <<apps, functions, deployed, referred, mreq>>

MIdle == [pc |-> "idle"]

\* A request between its last check and its commit. children: what a DELETE
\* loaded of the app's functions.
ModalRequest ==
    [pc : {"commit"}, op : {"add"}, user : User, body : AppPayload]
    \cup [pc : {"commit"}, op : {"delete"}, user : User, id : AppId,
          children : SUBSET FnId]
    \cup [pc : {"commit"}, op : {"patch"}, user : User, body : FunctionPatch, id : FnId,
          loaded : FunctionRow, obj : FunctionRow]

\* Every variable has its type.
TypeOK ==
    /\ apps \in [AppId -> AppRow \cup {NULL, GONE}]
    /\ functions \in [FnId -> FunctionRow \cup {NULL, GONE}]
    /\ deployed \in [User \X AppName -> Source \cup {NULL}]
    /\ referred \subseteq FnId
    /\ mreq \in [ModalReq -> ModalRequest \cup {MIdle}]

Init ==
    /\ apps = [a \in AppId |-> NULL]
    /\ functions = [f \in FnId |-> NULL]
    /\ deployed = [k \in User \X AppName |-> NULL]
    /\ referred = {}
    /\ mreq = [r \in ModalReq |-> MIdle]

Pending(r, op) == mreq[r].pc = "commit" /\ mreq[r].op = op
Goto(r, q) == mreq' = [mreq EXCEPT ![r] = q]
Finish(r) == Goto(r, MIdle)

Children(a) == {f \in Live(functions) : functions[f].app = a}

-----------------------------------------------------------------------------
(* POST /modal-apps *)

Adding == {r \in ModalReq : Pending(r, "add")}

\* Bound: every creation in flight has keys left to take.
RoomFor(b) ==
    /\ Cardinality(Adding) < Cardinality(Fresh(apps))
    /\ Cardinality(b.modal_functions)
        + MapThenSumSet(LAMBDA r : Cardinality(mreq[r].body.modal_functions), Adding)
            <= Cardinality(Fresh(functions))

\* Mutant: the name in the file is not compared.
FunctionsMatch(b) == Import[b.file].functions = b.modal_function_names

\* The two checks add_modal_app makes of a payload against its file.
FileMatches(b) ==
    /\ Import[b.file].app = b.app_name
    /\ Import[b.file].functions = b.modal_function_names

\* Modal deploys the file over what the user's app of that name stood for.
Deploy(u, name, file) == deployed' = [deployed EXCEPT ![<<u, name>>] = file]

\* The call may still fail after the deployment, and the request with it.
DeployApp(r, u, b) ==
    /\ mreq[r] = MIdle
    /\ RoomFor(b)
    /\ FileMatches(b)
    /\ Deploy(u, b.app_name, b.file)
    /\ \/ Goto(r, [pc |-> "commit", op |-> "add", user |-> u, body |-> b])
       \/ UNCHANGED mreq
    /\ UNCHANGED <<apps, functions, referred>>

\* Each function's metadata is looked up in what Modal found in the file; a name
\* that is not there is a KeyError.
HardwareSpecsFound(b) == {d.name : d \in b.modal_functions} \subseteq Import[b.file].functions

\* UNIQUE(doi): among the rows, and among the new ones.
DoisFree(data) ==
    /\ \A d \in data, f \in Live(functions) : d.doi # NULL => functions[f].doi # d.doi
    /\ \A d, e \in data : d.doi # NULL /\ d.doi = e.doi => d = e

RecordApp(r) ==
    /\ Pending(r, "add")
    /\ Finish(r)
    /\ LET u == mreq[r].user  b == mreq[r].body IN
        IF HardwareSpecsFound(b) /\ DoisFree(b.modal_functions)
        THEN \E a \in Fresh(apps), key \in Injection(b.modal_functions, Fresh(functions)) :
            /\ apps' = [apps EXCEPT ![a] = [owner |-> u, name |-> b.app_name, file |-> b.file]]
            /\ functions' = [f \in FnId |->
                IF \E d \in b.modal_functions : key[d] = f
                THEN LET d == CHOOSE d \in b.modal_functions : key[d] = f IN
                     [app |-> a, name |-> d.name, doi |-> d.doi,
                      is_archived |-> d.is_archived, text |-> d.text]
                ELSE functions[f]]
        ELSE UNCHANGED <<apps, functions>>
    /\ UNCHANGED <<deployed, referred>>

-----------------------------------------------------------------------------
(* DELETE /modal-apps/{id} *)

DeleteApp(r, u, a) ==
    /\ mreq[r] = MIdle
    /\ apps[a].owner = u
    /\ \A f \in Children(a) : functions[f].doi = NULL
    /\ Goto(r, [pc |-> "commit", op |-> "delete", user |-> u, id |-> a,
                children |-> Children(a)])
    /\ UNCHANGED <<apps, functions, deployed, referred>>

\* Mutant: the references of gardens and invocations cascade.
AppHasNoOther(q) == Children(q.id) \subseteq q.children

\* The foreign keys of gardens_modal_functions, modal_invocations and
\* modal_functions: the rows the cascade deletes are referred to by no other.
CascadeAllowed(q) == q.children \cap referred = {} /\ Children(q.id) \subseteq q.children

\* The cascade deletes the functions loaded with the app. The deployment stays.
CommitDelete(r) ==
    LET q == mreq[r] IN
    /\ Pending(r, "delete")
    /\ Finish(r)
    /\ IF CascadeAllowed(q)
       THEN /\ apps' = [apps EXCEPT ![q.id] = GONE]
            /\ functions' = [f \in FnId |-> IF f \in q.children THEN GONE ELSE functions[f]]
       ELSE UNCHANGED <<apps, functions>>
    /\ UNCHANGED <<deployed, referred>>

-----------------------------------------------------------------------------
(* PATCH /modal-functions/{id} *)

Editable(row, p, u) ==
    /\ apps[row.app].owner = u
    /\ row.is_archived => p.is_archived = FALSE

\* Mutants: drafts may be archived; the text of a published function may change.
PatchAllowedLoosely(row, p) == row.doi # NULL => p.name = NULL /\ p.doi = NULL /\ p.text = NULL
PatchAllowedText(row, p) ==
    IF row.doi = NULL THEN p.is_archived # TRUE ELSE p.name = NULL /\ p.doi = NULL

\* Publication gives a function its DOI; without one it is a draft, which cannot
\* be archived. With one, these three attributes are fixed.
PatchAllowed(row, p) ==
    IF row.doi = NULL
    THEN p.is_archived # TRUE
    ELSE p.name = NULL /\ p.doi = NULL /\ p.text = NULL

UpdateFunction(r, u, f, p) ==
    LET row == functions[f]
        obj == [app |-> row.app, name |-> Given(p.name, row.name),
                doi |-> Given(p.doi, row.doi),
                is_archived |-> Given(p.is_archived, row.is_archived),
                text |-> Given(p.text, row.text)]
    IN  /\ mreq[r] = MIdle
        /\ Editable(row, p, u)
        /\ PatchAllowed(row, p)
        /\ Goto(r, [pc |-> "commit", op |-> "patch", user |-> u, body |-> p, id |-> f,
                    loaded |-> row, obj |-> obj])
        /\ UNCHANGED <<apps, functions, deployed, referred>>

FlushedFunction(row, loaded, obj) ==
    [app |-> row.app,
     name |-> FlushColumn(row.name, loaded.name, obj.name),
     doi |-> FlushColumn(row.doi, loaded.doi, obj.doi),
     is_archived |-> FlushColumn(row.is_archived, loaded.is_archived, obj.is_archived),
     text |-> FlushColumn(row.text, loaded.text, obj.text)]

\* UNIQUE(doi) for the DOI the flush writes.
DoiFree(q) ==
    q.obj.doi # q.loaded.doi =>
        \A f \in Live(functions) \ {q.id} : functions[f].doi # q.obj.doi

CommitPatch(r) ==
    LET q == mreq[r] IN
    /\ Pending(r, "patch")
    /\ Finish(r)
    /\ IF q.id \in Live(functions) /\ DoiFree(q)
       THEN functions' = [functions EXCEPT ![q.id] = FlushedFunction(@, q.loaded, q.obj)]
       ELSE UNCHANGED functions
    /\ UNCHANGED <<apps, deployed, referred>>

-----------------------------------------------------------------------------
(* The other routes and the process *)

\* A garden that lists a function, or an invocation of it, is committed; a
\* garden that listed it is deleted or lists it no more.
Refer(f) ==
    /\ referred' = referred \cup {f}
    /\ UNCHANGED <<apps, functions, deployed, mreq>>

Release(f) ==
    /\ referred' = referred \ {f}
    /\ UNCHANGED <<apps, functions, deployed, mreq>>

Restart ==
    /\ mreq' = [r \in ModalReq |-> MIdle]
    /\ UNCHANGED <<apps, functions, deployed, referred>>

Next ==
    \/ \E r \in ModalReq :
        \/ \E u \in User, b \in AppPayloads : DeployApp(r, u, b)
        \/ RecordApp(r)
        \/ \E u \in User, a \in Live(apps) : DeleteApp(r, u, a)
        \/ CommitDelete(r)
        \/ \E u \in User, f \in Live(functions), p \in FunctionPatches :
            UpdateFunction(r, u, f, p)
        \/ CommitPatch(r)
    \/ \E f \in Live(functions) : Refer(f)
    \/ \E f \in referred : Release(f)
    \/ Restart

Spec == Init /\ [][Next]_vars

-----------------------------------------------------------------------------
\* A function belongs to a live app, a DOI to one function, and what gardens and
\* invocations refer to exists, although an app is deleted with the functions it
\* had when the request loaded it (delete_modal_app; UNIQUE and foreign keys).
FunctionIntegrity ==
    /\ \A f \in Live(functions) : functions[f].app \in Live(apps)
    /\ \A f, g \in Live(functions) :
        functions[f].doi = functions[g].doi => f = g \/ functions[f].doi = NULL
    /\ referred \subseteq Live(functions)

\* A live app is on Modal under the name invocations look it up by, deployed from
\* a file that defines an app of that name: the row is written only after the
\* deployment, whatever fails or overlaps (add_modal_app).
AppsDeployed ==
    \A a \in Live(apps) :
        LET file == deployed[<<apps[a].owner, apps[a].name>>] IN
        file # NULL /\ Import[file].app = apps[a].name

\* What a request may do to a function of an app its user owns: a DELETE loaded
\* it as a child, a PATCH loaded it, archived only to un-archive it, and as a
\* draft if it renames it, changes its text or gives it a DOI.
MayWriteFunction(q, f, before, after) ==
    /\ apps[before.app].owner = q.user
    /\ IF after = GONE
       THEN q.op = "delete" /\ q.id = before.app /\ f \in q.children
       ELSE /\ q.op = "patch" /\ q.id = f
            /\ q.loaded.is_archived => q.body.is_archived = FALSE
            /\ after.app = before.app
            /\ q.loaded.doi # NULL =>
                after.name = before.name /\ after.doi = before.doi /\ after.text = before.text

\* However requests overlap, a function's row changes only in the commit of a
\* request allowed to change it by what it loaded (delete_modal_app and
\* update_modal_function check the object, then await the commit).
FunctionWritesAuthorised ==
    [][\A f \in Live(functions) : functions'[f] # functions[f] =>
        \E r \in ModalReq :
            /\ mreq[r].pc = "commit" /\ mreq[r].op # "add"
            /\ MayWriteFunction(mreq[r], f, functions[f], functions'[f])]_vars

\* No step takes a function "directly from draft state to archived state"
\* (modal_functions.py:63), and a DOI once given is never taken away: the check
\* is made on the row loaded, and holds at the commit because rivals can only
\* publish.
DraftsNotArchived ==
    [][\A f \in Live(functions) : functions'[f] # GONE =>
        /\ functions[f].doi # NULL => functions'[f].doi # NULL
        /\ functions'[f].doi = NULL /\ functions'[f].is_archived
            => functions[f].is_archived]_vars
=============================================================================
