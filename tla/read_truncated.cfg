CONSTANTS
    UsedSize = 9
    ChunkSize = 3
    Word = 4
    MaxErrors = 3
    MaxLate = 1
    Worlds <- NoFault
SPECIFICATION Spec
INVARIANTS HealthyCopyIsFull
