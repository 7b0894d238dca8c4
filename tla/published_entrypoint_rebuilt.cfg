SPECIFICATION Spec
CONSTANTS
    NULL = NULL
    GONE = GONE
    u1 = u1
    u2 = u2
    d1 = d1
    d2 = d2
    f1 = f1
    f2 = f2
    m1 = m1
    User = {u1, u2}
    Doi = {d1}
    Func = {f1, f2}
    GardenId = {g1}
    EntrypointId = {e1}
    ModalFnId = {m1}
    GardenReq = {}
    EntrypointReq = {r1}
    SaveReq = {}
    DoiEvents = {"findable"}
    GardenBodies <- None
    GardenPatches <- None
    EntrypointBodies <- OneEntrypointBody
    EntrypointPatches <- AllEntrypointPatches
PROPERTIES PublishedEntrypointFrozen
