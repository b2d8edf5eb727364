CONSTANTS
    UsedSize = 7
    ChunkSize = 2
    Word = 8
    MaxErrors = 3
    MaxLate = 3
    Worlds <- AllWorlds
SPECIFICATION FairSpec
INVARIANTS CopyMatchesFlash NoReplyFromTheFuture InFlightBounded
           SlownessIsForgiven HealthyCopyIsFull
PROPERTIES ImplementsFlashCopy Terminates HealthyCopyCompletes
