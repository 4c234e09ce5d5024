\* Two threads, two objects, one with a weak_ptr in it and one with a shared_ptr, four handles.
CONSTANTS
    Null = Null
    t1 = t1
    t2 = t2
    s1 = s1
    s2 = s2
    w1 = w1
    w2 = w2
    b1 = b1
    b2 = b2
    Threads = {t1, t2}
    MayDie = {t2}
    Blocks = {b1, b2}
    SharedHandles = {s1, s2}
    WeakHandles = {w1, w2}
    FieldKind <- OneOfEach
SPECIFICATION FairSpec
INVARIANTS
    TypeOK
    CountsAreReferences
    NoDangling
    OneDisposer
    NothingKept
PROPERTIES
    DropsFinishUnlessEntangled
CHECK_DEADLOCK FALSE
