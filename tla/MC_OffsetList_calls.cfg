\* Every sequence of calls on three lists, two of which share a heap.
CONSTANTS
    Null = Null
    Undefined = Undefined
    NoIterator = NoIterator
    a1 = a1
    a2 = a2
    a3 = a3
    b1 = b1
    b2 = b2
    c1 = c1
    c2 = c2
    c3 = c3
    Nodes = {a1, a2, a3, b1, b2}
    Lists = {c1, c2, c3}
    Values = {0, 1}
    HeapOf <- TwoHeaps
SPECIFICATION Spec
SYMMETRY Alike
INVARIANTS
    TypeOK
    WalksAgree
    NodesAreOwned
    EndsAreInOrder
PROPERTIES
    OthersLeakNothing
    SequencesSpec
