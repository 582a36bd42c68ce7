SPECIFICATION Spec
CONSTANTS
    Names = {"a", "bb", "ccc"}
    Width <- MCWidth
    Files = 3
    Starts <- MCStarts
    PerCluster = 4
    LastCluster = 4
    Roots = {"fixed", "chain"}
    MaxOps = 2
    MaxFaults = 2
    Windows = {}
INVARIANTS NeverLost ClustersOwned DirectoriesWhole
PROPERTY TreeAtomic
