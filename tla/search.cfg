SPECIFICATION FairSpec
CONSTANTS
    Gardens = {g1}
    Entrypoints = {e1}
    Functions = {}
    Dois = {}
    Uuids = {}
    Texts = {hit}
    Matching = {hit}
    Undescribed = {}
    Writers = {w1, w2}
    Searches = {s1}
    None = None
    Null = Null
INVARIANTS
    TypeOK
    OrderlyNeverDeadlock
PROPERTIES
    OwnWriteIndexed
    ResultsOnlyShrink
    WritersEnd
