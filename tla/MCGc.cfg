SPECIFICATION GcSpec
CONSTANTS
    o1 = o1  o2 = o2  o3 = o3
    Kinds = {"Collector", "GcPartition"}
    MaxCount = 1
    Nodes = {o1, o2, o3}
    Obj = {o1, o2}
    Finalizables = {{o1, o2}, {o1}}
    Unclearable = {o2}
    LateWeakrefs = FALSE
    NumGenerations = 2
    MaxSteps = 3
INVARIANTS CollectorInv PartitionInv PartitionIsReachability NothingFinalizedOnceIsCleared WeakrefsAreSound
PROPERTIES KeepsWhatIsHeld CollectionsEnd
CHECK_DEADLOCK FALSE
