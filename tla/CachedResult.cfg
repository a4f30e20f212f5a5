SPECIFICATION Spec
CONSTANTS
    MaxRows = 4
    MaxWrites = 1
    Offsets = {0, 1, 3}
    Limits = {1, 3}
    cacheListCountLimit = 2
    maxIterations = 1
    scanBatch = 2
    Lost = {{1, 2}}
    None = None
INVARIANTS EntriesExact PageExact PageSound 
