CONSTANTS
    Copies = {f0, f1, f2}
    Active = f0
    RemountUnflushed = FALSE
SPECIFICATION Spec
INVARIANTS CleanMeansWhole CorruptionRecorded CleanIsTrue
PROPERTY MarkerPromise
