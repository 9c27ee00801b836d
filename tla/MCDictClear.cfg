SPECIFICATION FairDictSpec
CONSTANTS
    k1 = k1  k2 = k2  k3 = k3  k4 = k4  v = v  w = w
    Key = {k1, k2}
    Values <- MCValuesOne
    Hash <- MCHashSpread
    MinSize = 2  Shift = 32
    MaxDepth = 1
    MayRaise = FALSE
    ClearsDummies = TRUE
    Empty = Empty  Dummy = Dummy  NoIter = NoIter  Missing = Missing  Raised = Raised
PROPERTY OperationsEnd
