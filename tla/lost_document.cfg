SPECIFICATION Spec
CONSTANTS
    Gardens = {g1, g2}
    Entrypoints = {}
    Functions = {}
    Dois = {}
    Uuids = {}
    Texts = {hit, bare}
    Matching = {hit}
    Undescribed = {bare}
    Writers = {w1, w2}
    Searches = {}
    None = None
    Null = Null
INVARIANT
    CommittedIsIndexed
