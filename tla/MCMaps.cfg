SPECIFICATION MapsSpec
CONSTANTS
    k1 = k1  k2 = k2  k3 = k3  k4 = k4  v = v  w = w
    Kinds = {"DictTable", "Hamt", "ContextVars"}
    Key = {k1, k2, k3}
    Values <- MCValues
    Hash <- MCHash
    MinSize = 4  Shift = 32
    MaxDepth = 1
    MayRaise = FALSE
    ClearsDummies = FALSE
    Empty = Empty  Dummy = Dummy  NoIter = NoIter  Missing = Missing  Raised = Raised
INVARIANTS TableIsSound IteratorIsFaithful ContextSound
PROPERTIES HamtSound ImplementsOrderedMap OperationsEnd
CHECK_DEADLOCK FALSE
