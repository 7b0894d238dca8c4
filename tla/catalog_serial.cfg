SPECIFICATION Spec
CONSTANTS
    NULL = NULL
    GONE = GONE
    u1 = u1
    u2 = u2
    d1 = d1
    d2 = d2
    f1 = f1
    f2 = f2
    m1 = m1
    User = {u1, u2}
    Doi = {d1, d2}
    Func = {f1}
    GardenId = {g1}
    EntrypointId = {e1}
    ModalFnId = {}
    GardenReq = {r1}
    EntrypointReq = {r2}
    SaveReq = {r3}
    DoiEvents = {"findable"}
    GardenBodies <- AllGardenBodies
    GardenPatches <- AllGardenPatches
    EntrypointBodies <- OneEntrypointBody
    EntrypointPatches <- PubPatches
INVARIANTS ReferentialIntegrity
PROPERTIES PublishedGardenFrozen PublishedEntrypointKept HiddenIsArchived ActsAtomically
