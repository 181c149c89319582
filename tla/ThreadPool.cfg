\* Two tasks; two callers of setNumThreads that make two calls between them.
SPECIFICATION FairSpec
CONSTANTS
    Task = {t1, t2}
    Controller = {c1, c2}
    NoTask = NoTask
    NoController = NoController
    MaxThreads = 2
    MaxProviders = 2
    MaxCalls = 2
INVARIANTS WakeupsExact TaskInOnePlace
PROPERTIES QueuedTaskRuns SetNumThreadsReturns
