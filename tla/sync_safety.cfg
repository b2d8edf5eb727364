CONSTANTS
    MaxUnits = 2
    MaxSessions = 3
    MaxMail = 2
    Capacity = 3
    Reserve = 1
    FlashCap = 2
    Cleanup = TRUE
    Modes <- AllModes
    Panics = TRUE
SPECIFICATION Spec
INVARIANTS NothingLost ManifestMeansComplete ErasedMeansGone SuccessMeansErased OutcomeIsShown
PROPERTIES EraseOnlyArchived OldestFirst ImplementsSafeTransfer
