\* Two processes; the memory is mapped at 1, 8 or 9 of 16 addresses.
CONSTANTS
    p1 = p1
    p2 = p2
    Procs = {p1, p2}
    Size = 2
    Plain = {0, 2}
    Atomics = {1}
    M = 16
    BasesOf <- MCBasesOf
    TempAt <- MCTempAt
    Steps <- MCSteps
    Upcasts <- MCUpcasts
SPECIFICATION Spec
INVARIANTS
    TypeOK
    SameForEveryProcess
PROPERTIES
    CallsAreKept
