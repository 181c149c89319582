\* A call with the lines of one whole block, whose compressor throws: the block still
\* counts as partially full, and the call returns as if it were kept for the next one.
SPECIFICATION Spec
CONSTANTS
    Height = 4
    LinesInBuffer = 2
    Buffers = {2}
    SizeModulus = 65536
    MaxCalls = 1
INVARIANT ExceptionsRethrown
