CONSTANTS
    NumBlocks = 4
    Capacity = 3
    MaxRun = 2
    Contents <- ContentsOf
SPECIFICATION Spec
INVARIANTS CleanMatchesDevice RequestsAgree
PROPERTIES NoLostWrites StorePromise
