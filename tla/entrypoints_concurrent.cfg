SPECIFICATION Spec
CONSTANTS
    NULL = NULL
    GONE = GONE
    u1 = u1
    u2 = u2
    d1 = d1
    d2 = d2
    f1 = f1
    f2 = f2
    m1 = m1
    User = {u1, u2}
    Doi = {d1, d2}
    Func = {f1, f2}
    GardenId = {g1}
    EntrypointId = {e1, e2}
    ModalFnId = {}
    GardenReq = {}
    EntrypointReq = {r1, r2}
    SaveReq = {}
    DoiEvents = {}
    GardenBodies <- None
    GardenPatches <- None
    EntrypointBodies <- AllEntrypointBodies
    EntrypointPatches <- AllEntrypointPatches
SYMMETRY Symmetry
INVARIANTS UniqueKeys
PROPERTIES EntrypointWritesAuthorised
