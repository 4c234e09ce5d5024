\* Four processes, any of which may die or fail at any step.
CONSTANTS
    None = None
    Procs = {p1, p2, p3, p4}
    Objs = {o1, o2}
    MayDie = {p1, p2, p3, p4}
    MayFail = {p1, p2, p3, p4}
    ReqPages <- SamePages
SYMMETRY Symmetry
SPECIFICATION Spec
INVARIANTS
    TypeOK
    UsersShareOneObject
    ReadyIsComplete
PROPERTIES
    NothingPulledFromUsers
    LifecycleSpec
\* Every process may be dead.
CHECK_DEADLOCK FALSE
