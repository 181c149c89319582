\* All level modes and line orders; the second call can bring the tiles that those
\* of the first wait for, or repeat them; one tile buffer is a file without threads.
SPECIFICATION FairTiled
CONSTANTS
    Modes = {"ONE_LEVEL", "MIPMAP_LEVELS", "RIPMAP_LEVELS"}
    LineOrders = {"INCREASING_Y", "DECREASING_Y", "RANDOM_Y"}
    XTiles <- TwoThenOne
    YTiles <- TwoThenOne
    Buffers = {1, 2}
    MaxCalls = 2
INVARIANTS TilesInOrder NothingHeldBack
PROPERTY WriteTilesReturns
