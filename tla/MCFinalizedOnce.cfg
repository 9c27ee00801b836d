SPECIFICATION GcSpec
CONSTANTS
    o1 = o1  o2 = o2  o3 = o3
    Kinds = {"Collector"}
    Nodes = {o1}
    MaxCount = 0
    NumGenerations = 2
    MaxSteps = 5
    Obj = {o1, o2}
    Finalizables = {{o1, o2}}
    Unclearable = {}
    LateWeakrefs = FALSE
INVARIANT FinalizedOnce
