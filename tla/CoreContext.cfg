SPECIFICATION FairSpec
CONSTANTS
    Thread = {t1, t2}
    NumParts = 2
    ScanChunks = 2
    MaxChunks = 2
    Failed = Failed
    Geometry <- Geometries
    Live <- Read
INVARIANTS
    ChunksFound
    TilesAgree
    ContextInv
    HeaderFits
PROPERTIES
    TablesShared
    CallsReturn
\* A mutex that was kept stops the context; a context open for reading comes to rest.
CHECK_DEADLOCK FALSE
