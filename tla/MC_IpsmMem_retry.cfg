\* Violated: the retry of a setup that found the memory not ready.
CONSTANTS
    None = None
    Procs = {p1, p2}
    Objs = {o1, o2}
    MayDie = {p1}
    MayFail = {}
    ReqPages <- SamePages
SPECIFICATION Spec
INVARIANTS
    NotReadyIsRetried
\* Every process may be dead.
CHECK_DEADLOCK FALSE
