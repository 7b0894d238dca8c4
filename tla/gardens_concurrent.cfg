SPECIFICATION Spec
CONSTANTS
    NULL = NULL
    GONE = GONE
    u1 = u1
    u2 = u2
    d1 = d1
    d2 = d2
    f1 = f1
    f2 = f2
    m1 = m1
    User = {u1, u2}
    Doi = {d1}
    Func = {f1, f2}
    GardenId = {g1, g2}
    EntrypointId = {e1}
    ModalFnId = {m1}
    GardenReq = {r1, r2}
    EntrypointReq = {r3}
    SaveReq = {}
    DoiEvents = {"findable"}
    GardenBodies <- TwoGardenBodies
    GardenPatches <- RaceGardenPatches
    EntrypointBodies <- OneEntrypointBody
    EntrypointPatches <- None
SYMMETRY Symmetry
INVARIANTS TypeOK UniqueKeys ReferentialIntegrity
PROPERTIES GardenWritesAuthorised
