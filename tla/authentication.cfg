SPECIFICATION AuthSpec
CONSTANTS
    i1 = i1
    i2 = i2
    t1 = t1
    t2 = t2
    Identity = {i1, i2}
    Req = {r1, r2}
    Token = {t1, t2}
    Owner <- MCOwner
    Scoped = {t1}
    Ending = {t1}
    TTL = 2
    MaxCall = 1
    Horizon = 3
INVARIANTS
    AuthTypeOK
    StalenessBounded
    OneInserter
PROPERTIES
    InsertsReleased
    KeepsPromise
    TimesKept
