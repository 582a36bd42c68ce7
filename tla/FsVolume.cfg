SPECIFICATION Spec
CONSTANTS
    Tasks = {t1, t2}
    Nodes = {n1}
    Pins = {h1, h2, h3}
    MaxDirs = 2
    Modes = {"sync", "async"}
    Windows = {}
INVARIANTS
    PinsAccounted
PROPERTIES
    FailedIsQuiet
    OwedCallsRun
    LockComesFree
