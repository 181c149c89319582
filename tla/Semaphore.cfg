\* Four threads, so that two sleep while one is awake and one takes its unit;
\* up to three units, so that post notifies one and all.
SPECIFICATION FairSemaphore
CONSTANTS
    Thread = {t1, t2, t3, t4}
    Initial = 1
    MaxCount = 3
INVARIANT SemaphoreInv
PROPERTY ImplementsSemaphore
