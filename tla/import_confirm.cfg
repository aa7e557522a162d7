CONSTANTS
    Requests = {r1, r2}
    Bodies = {f1, f2}
    RowCount = 3
    ChunkRows = 2
    MaxHeaders = 3
    None = None
CHECK_DEADLOCK FALSE
SPECIFICATION FairSpec
INVARIANTS ConfirmSafe
PROPERTIES ImplementsImportOnce EveryConfirmEnds
