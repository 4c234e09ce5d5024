\* Requests of any alignment a header gives; callers may die amid allocate.
CONSTANTS
    Units = 8
    HeapAt = 0
    Requests = {0, 1, 2}
    Aligns = {1}
    MayDieIn = {"allocate"}
SPECIFICATION Spec
INVARIANTS
    TypeOK
    FreeListSound
    NoOverlap
    NothingLost
    Coalesced
    EveryReturnSucceeds
