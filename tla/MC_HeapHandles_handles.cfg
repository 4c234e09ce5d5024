SPECIFICATION Spec
CONSTANTS
    p1 = p1
    p2 = p2
    ma = ma
    mb = mb
    x1 = x1
    x2 = x2
    y = y
    u1 = u1
    ua = ua
    w1 = w1
    wa = wa
    la = la
    oa = oa
    ob = ob
    s1 = s1
    s2 = s2
    t1 = t1
    t2 = t2
    d1 = d1
    d2 = d2
    None = None
    Procs = {p1, p2}
    MayDie = {p2}
    Memories = {ma, mb}
    Mallocs = {x1, x2, y}
    NameOf <- MCNameOf
    Users = {ua, u1}
    Uniques = {w1, wa}
    ListsOf <- MCListsOf
    Setups = {s1, s2}
    Temps = {t1, t2}
    Deleters = {d1, d2}
    Home <- MCHome
    Objects = {oa, ob}
    HeapOf <- MCHeapOf
    Arrays = {ob}
INVARIANTS
    TypeOK
    BindCountIsExact
    NoUseAfterUnmap
    OwnedOnce
CHECK_DEADLOCK FALSE
