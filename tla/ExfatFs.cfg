SPECIFICATION Spec
CONSTANTS
    Names = {"a", "bb"}
    Width <- MCWidth
    Ids = 3
    PerCluster = 4
    PerBlock = 2
    LastCluster = 5
    MaxLen = 2
    Starts <- MCStarts
    Pinning = {FALSE, TRUE}
    MaxOps = 2
    MaxFaults = 2
    Windows = {}
INVARIANTS AllocationsKept SetsWhole NodesAgree BitmapExact
PROPERTY TreeAtomic
