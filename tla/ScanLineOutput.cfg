\* Five lines in blocks of two, so that the last block is short and the
\* line buffers are used more than once; one line buffer is a file without threads.
SPECIFICATION FairSpec
CONSTANTS
    Height = 5
    LinesInBuffer = 2
    Buffers = {1, 2, 6}
    SizeModulus = 65536
    MaxCalls = 4
INVARIANTS FileSound CursorInv
PROPERTY WritePixelsReturns
