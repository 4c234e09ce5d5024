\* Violated: one request is aligned to two headers.
CONSTANTS
    Units = 8
    HeapAt = 0
    Requests = {0, 1, 2, 3}
    Aligns = {1, 2}
    MayDieIn = {}
SPECIFICATION Spec
INVARIANTS
    NoOverlap
