\* One of three processes may die; a functor may never return.
CONSTANTS
    None = None
    Procs = {p1, p2, p3}
    Objs = {o1, o2}
    MayDie = {p1}
    MayFail = {}
    ReqPages <- SamePages
SPECIFICATION FairSpec
INVARIANTS
    NoLeak
PROPERTIES
    WaitEnds
    SetupReturnsWhenOthersRest
\* Every process may be dead.
CHECK_DEADLOCK FALSE
