\* Two senders and a receiver, all of which may die; two channels, two nodes.
CONSTANTS
    None = None
    Null = Null
    p1 = p1
    p2 = p2
    p3 = p3
    c1 = c1
    c2 = c2
    Procs = {p1, p2, p3}
    Lists = {c1, c2}
    Nodes = {n1, n2}
    MayDie = {p1, p2, p3}
    MaxMsgs = 3
    Calls <- TwoSenders
SPECIFICATION Spec
SYMMETRY Alike
INVARIANTS
    TypeOK
    AccessIsExclusive
    Fifo
    NoLostWakeup
    NoNodeLeak
\* The threads may all be dead, or asleep for ever.
CHECK_DEADLOCK FALSE
