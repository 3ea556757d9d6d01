SPECIFICATION Spec
CONSTANTS
    Clients = {c1, c2}
    Workers = {w1, w2, w3}
    Requests <- AllRequests
    Overflowing <- JustSum
    Routes <- OnlySet
    Keys = {"k"}
    BufferSize = 3
    MaxRequests = 2
    Loads <- MixedFaultyOrPanicking
    None = None
INVARIANTS ServedOneByOne UnreadNoticed StreamsInPlace
SYMMETRY Symmetry
CHECK_DEADLOCK FALSE
