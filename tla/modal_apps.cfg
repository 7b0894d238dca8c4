SPECIFICATION Spec
CONSTANTS
    NULL = NULL
    GONE = GONE
    u1 = u1
    u2 = u2
    a1 = a1
    a2 = a2
    n1 = n1
    n2 = n2
    s1 = s1
    s2 = s2
    t1 = t1
    t2 = t2
    d1 = d1
    d2 = d2
    User = {u1, u2}
    AppName = {a1, a2}
    FnName = {n1, n2}
    Source = {s1, s2}
    Import <- Files
    Text = {t1, t2}
    Doi = {d1}
    AppId = {k1, k2}
    FnId = {f1, f2, f3}
    ModalReq = {r1, r2}
    AppPayloads <- Payloads
    FunctionPatches <- Patches
SYMMETRY Symmetry
INVARIANTS TypeOK FunctionIntegrity AppsDeployed
PROPERTIES FunctionWritesAuthorised DraftsNotArchived
