\* A part in random order between two in increasing order; two failures, so that a
\* chunk can fail twice, or a chunk and the table of its part once each.
SPECIFICATION Spec
CONSTANTS
    NumParts = 3
    ChunkCount <- ThreeParts
    RandomParts = {1}
    MaxFaults = 2
INVARIANTS WriteInv DonePartsComplete FileInOrder OnlyCompleteFilesStay
