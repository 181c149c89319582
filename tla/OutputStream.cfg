SPECIFICATION Spec
CONSTANTS
    NumChunks = 2
    Start = {0, 3}
    MaxFaults = 1
INVARIANTS
    StreamInv
    TablesStored
\* A file that is closed stays so.
CHECK_DEADLOCK FALSE
