SPECIFICATION Spec
CONSTANT
    Populated = {"users", "entrypoints", "gardens", "gardens_entrypoints", "modal_apps", "modal_functions"}
INVARIANTS
    TypeOK
    SchemaMatchesRevision
    UpgradesAccepted
PROPERTIES
    UpgradesKeepRows
    NoWayBack
