SPECIFICATION Spec
CONSTANTS
    Sizes = {10, 12}
    Slots = 2
    MaxLogical = 3
    DefaultEntries = 2
    Counts = {1, 2}
    Extents <- MCExtents
    ExtendedAt <- MCExtendedAt
    Layouts = {}
    MaxEdits = 4
    MaxWrites = 2
    MaxFaults = 1
INVARIANT
    InterruptedWriteShowsATable
