\* Images of less than N2 lines, less than N, and more than the window of the reader.
SPECIFICATION YcaSpec
CONSTANTS
    N = 7
    Heights = {2, 6, 10}
    MaxFails = 1
INVARIANTS LinesWritten LinesRead
\* A writer that has written its image stops.
CHECK_DEADLOCK FALSE
