SPECIFICATION Spec
CONSTANTS
    Tasks = {t1, t2}
    Nodes = {n1}
    Pins = {h1, h2, h3}
    MaxDirs = 2
    Modes = {"async"}
    Windows = {"cut_close"}
INVARIANTS
    OpenWhileHandleLives
