CONSTANTS
    MaxCluster = 5
    Spanning = {}
    Block <- BlockOf
    Files = {a, b}
    ClusterSize = 1
    MaxSize = 4
    Kinds = {FALSE, TRUE}
    Windows = {}
SYMMETRY FilesSymmetry
SPECIFICATION Spec
INVARIANTS ChainsSound SizeWithinChain NoLeak NodesAgree
PROPERTIES DataKept GroupWrites
