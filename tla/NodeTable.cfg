CONSTANTS
    Slots = {s1, s2, s3}
    NumTags = 2
    Files = {f1, f2}
    NoFile = NoFile
    NoSlot = NoSlot
    Reserved = Reserved
    NodeLimit = 2
    MaxPins = 2
    MaxOpens = 1
    Windows = {}
SPECIFICATION Spec
SYMMETRY Symmetry
INVARIANTS PinAccounting OneNodePerEntry NodesMatchDisk OpenIsLinked
PROPERTY IdsKeepTheirFile
