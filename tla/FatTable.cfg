CONSTANTS
    MaxCluster = 4
    Copies = {f0, f1}
    Active = f0
    Spanning = {4}
    Block <- BlockOf
    Windows = {}
SPECIFICATION Spec
INVARIANTS CopiesAgree FullIsFull
PROPERTY AtomicWrites
