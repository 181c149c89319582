SPECIFICATION FairSpec
CONSTANTS
    Units = 4
    NumThreads = 2
    MaxWorkers = 2
    Caller = {c1, c2}
    f1 = f1
    f2 = f2
    planar = planar
    interleaved = interleaved
    Frame = {f1, f2}
    NoFrame = NoFrame
    Layout = {planar, interleaved}
    NoLayout = NoLayout
    LayoutOf <- MCLayoutOf
    DirectLayout = planar
    Chunks = 3
    Columns = 2
INVARIANTS
    ProcessInv
    GroupOutlivesTasks
    FailureReported
    ReadDelivers
PROPERTIES
    ImplementsPool
    ReadReturns
