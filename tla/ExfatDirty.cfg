CONSTANT Cuts = {}
SPECIFICATION Spec
INVARIANT SyncClears
PROPERTY MarkerPromise
