SPECIFICATION Spec
CONSTANT
    Populated = {"users", "gardens"}
INVARIANT
    HeadIsModels
