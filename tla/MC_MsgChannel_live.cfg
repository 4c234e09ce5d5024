\* A sender that may die, a receiver that waits and one with a deadline.
CONSTANTS
    None = None
    Null = Null
    p1 = p1
    p2 = p2
    p3 = p3
    c1 = c1
    c2 = c2
    Procs = {p1, p2, p3}
    Lists = {c1}
    Nodes = {n1, n2}
    MayDie = {p1}
    MaxMsgs = 2
    Calls <- OneSender
SPECIFICATION FairSpec
PROPERTIES
    WaiterServed
    TimedReceiveEnds
\* The sender may be dead while a receiver sleeps.
CHECK_DEADLOCK FALSE
